---------------------------- MODULE Spec2Model ----------------------------
(***************************************************************************)
(* Matching and scoring engine of the class/association evaluation         *)
(* pipeline (class_assoc_pipeline/utils/metrics.py and its callers).       *)
(*                                                                         *)
(* Python strings are finite sequences of one-character strings.  Python   *)
(* sets that the code mutates in place (the working copies of the gold and *)
(* silver standards) live in a heap of objects addressed by references, so *)
(* that copying and aliasing are distinguishable.                          *)
(***************************************************************************)
EXTENDS Integers, Sequences, FiniteSets, TLC

(***************************************************************************)
(* Bounds of the model.                                                    *)
(***************************************************************************)
\* longest list of terms (or pairs) of one round
MaxTerms == 2
\* number of rounds (sheets) evaluated against the same standards
MaxRounds == 2

(***************************************************************************)
(* Python string primitives.                                               *)
(***************************************************************************)
\* str.startswith
StartsWith(s, p) == Len(s) >= Len(p) /\ SubSeq(s, 1, Len(p)) = p

\* `k in s` for strings: k occurs as a substring of s ('' occurs everywhere)
IsSubstring(k, s) ==
    \E i \in 0..(Len(s) - Len(k)) : SubSeq(s, i + 1, i + Len(k)) = k

RECURSIVE Interleave(_, _)
\* s.replace('', new): new before every character and at the end
Interleave(s, new) ==
    IF s = <<>> THEN new
    ELSE new \o <<Head(s)>> \o Interleave(Tail(s), new)

RECURSIVE ReplaceNonEmpty(_, _, _)
\* s.replace(old, new) for old # '': leftmost, non-overlapping occurrences
ReplaceNonEmpty(s, old, new) ==
    IF Len(s) < Len(old) THEN s
    ELSE IF SubSeq(s, 1, Len(old)) = old
         THEN new \o ReplaceNonEmpty(SubSeq(s, Len(old) + 1, Len(s)), old, new)
         ELSE <<Head(s)>> \o ReplaceNonEmpty(Tail(s), old, new)

\* str.replace(old, new)
Replace(s, old, new) ==
    IF old = <<>> THEN Interleave(s, new) ELSE ReplaceNonEmpty(s, old, new)

RECURSIVE LStrip(_)
LStrip(s) == IF s # <<>> /\ Head(s) = " " THEN LStrip(Tail(s)) ELSE s

RECURSIVE RStrip(_)
RStrip(s) ==
    IF s # <<>> /\ s[Len(s)] = " " THEN RStrip(SubSeq(s, 1, Len(s) - 1)) ELSE s

\* str.strip()
Strip(s) == RStrip(LStrip(s))

RECURSIVE SplitAcc(_, _, _)
SplitAcc(s, sep, cur) ==
    IF s = <<>> THEN <<cur>>
    ELSE IF Head(s) = sep THEN <<cur>> \o SplitAcc(Tail(s), sep, <<>>)
         ELSE SplitAcc(Tail(s), sep, Append(cur, Head(s)))

\* str.split(sep) for a one-character separator
Split(s, sep) == SplitAcc(s, sep, <<>>)

\* the elements of a sequence
Range(f) == {f[i] : i \in DOMAIN f}

(***************************************************************************)
(* Strings of the model.                                                   *)
(***************************************************************************)
sEmpty == <<>>
sA == <<"a">>
sB == <<"b">>
sC == <<"c">>
sD == <<"d">>
sAB == <<"a", "/", "b">>
sCD == <<"c", "/", "d">>
\* the silver tag of a matched entry, f"(sil){w}"
SIL == <<"(", "s", "i", "l", ")">>

\* terms of a round of the class pipeline: normalized words, possibly empty
\* or holding slash-variants
ClassTerms == {sEmpty, sA, sB, sC, sAB, sCD}
\* items of the class standards
ClassItems == {sA, sB}
\* pairs handed to perform_matching_associations: evaluation_experiment
\* hands each pair with its endpoints sorted (<<"a","b">>, <<"c","d">>),
\* the function itself takes the endpoints in either order
AssocPairs == {<<sA, sB>>, <<sB, sA>>, <<sC, sD>>, <<sD, sC>>}
\* items of the association gold standard: frozensets of normalized endpoints
AssocItems == {{sA, sB}, {sA, sD}, {sC, sB}}
\* items of the association silver standard
AssocSilverItems == {{sA, sB}, {sA, sD}}
\* flat synonym maps (synonym -> standard) in insertion order
SynonymMaps ==
    { <<>>,
      << <<sC, sA>>, <<sD, sB>> >>,
      << <<sC, sA>>, <<sA, sB>> >> }

\* the lists of at most n elements of S
RECURSIVE SeqsUpTo(_, _)
SeqsUpTo(S, n) ==
    IF n = 0 THEN {<<>>}
    ELSE LET shorter == SeqsUpTo(S, n - 1)
         IN shorter \cup {Append(q, x) : q \in {r \in shorter : Len(r) = n - 1}, x \in S}

(***************************************************************************)
(* Synonym expander.                                                       *)
(***************************************************************************)
\* one iteration of `for key, val in mapping.items()`: new_set, a copy of
\* the candidates with the replacement of every candidate that holds key
CandidatesStep_replacing(candidates, key, val) ==
    {c \in candidates : ~IsSubstring(key, c)} \cup
        {Strip(Replace(cand, key, val)) :
            cand \in {c \in candidates : IsSubstring(key, c)}}
CandidatesStep(candidates, key, val) ==
    candidates \cup
        {Strip(Replace(cand, key, val)) :
            cand \in {c \in candidates : IsSubstring(key, c)}}

RECURSIVE CandidatesFrom(_, _, _)
\* the loop of generate_candidates from entry k of the mapping on
CandidatesFrom(candidates, mapping, k) ==
    IF k > Len(mapping) THEN candidates
    ELSE LET key == mapping[k][1]
             val == mapping[k][2]
             new_set == CandidatesStep(candidates, key, val)
         IN CandidatesFrom(new_set, mapping, k + 1)

generate_candidates(element, mapping) == CandidatesFrom({element}, mapping, 1)

(***************************************************************************)
(* Word normalizer (data_utils.normalize_word).                            *)
(***************************************************************************)
UpperCase == <<"A", "B", "C", "D", "E", "F", "G", "H", "I", "J", "K", "L", "M",
               "N", "O", "P", "Q", "R", "S", "T", "U", "V", "W", "X", "Y", "Z">>
LowerCase == <<"a", "b", "c", "d", "e", "f", "g", "h", "i", "j", "k", "l", "m",
               "n", "o", "p", "q", "r", "s", "t", "u", "v", "w", "x", "y", "z">>

\* str.lower() (ASCII letters)
Lower(s) ==
    [k \in 1..Len(s) |->
        IF \E u \in 1..26 : UpperCase[u] = s[k]
        THEN LowerCase[CHOOSE u \in 1..26 : UpperCase[u] = s[k]]
        ELSE s[k]]

\* the words normalize_word returns as they are
keywords ==
    { <<"c", "l", "a", "s", "s">>,
      <<"p", "r", "o", "c", "e", "s", "s">>,
      <<"p", "r", "o", "g", "r", "e", "s", "s">>,
      <<"a", "c", "a", "d", "e", "m", "i", "c", " ", "p", "r", "o", "g", "r", "e", "s", "s">>,
      <<"a", "d", "d", "r", "e", "s", "s">>,
      <<"d", "e", "l", "i", "v", "e", "r", "y", " ", "a", "d", "d", "r", "e", "s", "s">>,
      <<"d", "e", "l", "i", "v", "e", "r", "y", "a", "d", "d", "r", "e", "s", "n", "o", "r", "m", "a", "l", "i", "z", "e", "_", "w", "o", "r", "d">>,
      <<"s", "t", "a", "t", "u", "s">>,
      <<"o", "r", "d", "e", "r", " ", "s", "t", "a", "t", "u", "s">>,
      <<"b", "u", "s", "i", "n", "e", "s", "s">>,
      <<"s", "c", "h", "e", "d", "u", "l", "i", "n", "g", " ", "p", "r", "o", "c", "e", "s", "s">>,
      <<"p", "a", "y", "m", "e", "n", "t", " ", "p", "r", "o", "c", "e", "s", "s">>,
      <<"h", "i", "r", "i", "n", "g", " ", "p", "r", "o", "c", "e", "s", "s">> }

\* inflect's singular_noun(w) answers False for a word it takes for no plural
\* and the singular otherwise.  The library is modelled by its rule for
\* regular plurals: a word of two characters or more that ends in "s" is the
\* plural of the word without that "s".
IsPluralNoun(w) == Len(w) >= 2 /\ w[Len(w)] = "s"
singular_noun(w) == SubSeq(w, 1, Len(w) - 1)

normalize_word(word) ==
    LET lowered == Strip(Lower(word))
    IN IF lowered \in keywords THEN lowered
       ELSE IF IsPluralNoun(lowered) /\ singular_noun(lowered) # <<>>
            THEN singular_noun(lowered)
            ELSE lowered

(***************************************************************************)
(* Synonym tables (data_utils.expand_synonym_mapping).  A dict is the list *)
(* of its items, <<key, value>>, in insertion order.                       *)
(***************************************************************************)
\* d[key] = val: a new key goes to the end, a known key keeps its place
DictSet(d, key, val) ==
    IF \E k \in DOMAIN d : d[k][1] = key
    THEN [k \in DOMAIN d |-> IF d[k][1] = key THEN <<key, val>> ELSE d[k]]
    ELSE Append(d, <<key, val>>)

RECURSIVE ExpandSynonyms(_, _, _, _)
\* the inner loop, from synonym j of the entry on
ExpandSynonyms(flat, norm_standard, synonyms, j) ==
    IF j > Len(synonyms) THEN flat
    ELSE ExpandSynonyms(DictSet(flat, normalize_word(synonyms[j]), norm_standard),
                        norm_standard, synonyms, j + 1)

RECURSIVE ExpandEntries(_, _, _)
\* the outer loop, from entry k of the compact dict on
ExpandEntries(flat, compact_dict, k) ==
    IF k > Len(compact_dict) THEN flat
    ELSE ExpandEntries(
             ExpandSynonyms(flat, normalize_word(compact_dict[k][1]),
                            compact_dict[k][2], 1),
             compact_dict, k + 1)

expand_synonym_mapping(compact_dict) == ExpandEntries(<<>>, compact_dict, 1)

(***************************************************************************)
(* The two normalizers as functions of Python values.  A value is a record *)
(* of its type and, for a str, its characters.  The answer of a call is a  *)
(* str, or the exception the call raises.                                  *)
(***************************************************************************)
PyStr(s) == [type |-> "str", val |-> s]
PyNone == [type |-> "NoneType", val |-> <<>>]
PyNaN == [type |-> "float", val |-> <<>>]

\* isinstance(word, str)
IsInstanceStr(word) == word.type = "str"

\* the answer of a call that raises
Raised(exc) == [type |-> "raised", val |-> <<exc>>]

\* the installed inflect decides what singular_noun("") does: releases that
\* check argument types (text: Word, a str of at least one character) raise
\* on it, earlier releases answer the falsy ""
InflectReleases == {"unchecked", "typechecked"}
singular_noun_raises(inflect_release, w) ==
    inflect_release = "typechecked" /\ w = <<>>

\* data_utils.normalize_word
data_utils_normalize_word(inflect_release, word) ==
    IF ~IsInstanceStr(word) THEN PyStr(<<>>)
    ELSE LET lowered == Strip(Lower(word.val))
         IN IF lowered \in keywords THEN PyStr(lowered)
            ELSE IF singular_noun_raises(inflect_release, lowered)
                 THEN Raised("TypeCheckError")
                 ELSE PyStr(normalize_word(word.val))

\* the words text_utils.normalize_word returns as they are
text_utils_keywords ==
    { <<"c", "l", "a", "s", "s">>,
      <<"p", "r", "o", "c", "e", "s", "s">>,
      <<"p", "r", "o", "g", "r", "e", "s", "s">>,
      <<"a", "c", "a", "d", "e", "m", "i", "c", " ", "p", "r", "o", "g", "r", "e", "s", "s">>,
      <<"a", "d", "d", "r", "e", "s", "s">>,
      <<"d", "e", "l", "i", "v", "e", "r", "y", " ", "a", "d", "d", "r", "e", "s", "s">>,
      <<"d", "e", "l", "i", "v", "e", "r", "y", "a", "d", "d", "r", "e", "s">>,
      <<"s", "t", "a", "t", "u", "s">>,
      <<"o", "r", "d", "e", "r", " ", "s", "t", "a", "t", "u", "s">>,
      <<"b", "u", "s", "i", "n", "e", "s", "s">> }

\* text_utils.normalize_word
text_utils_normalize_word(inflect_release, word) ==
    IF ~IsInstanceStr(word) THEN PyStr(<<>>)
    ELSE LET lowered == Strip(Lower(word.val))
         IN IF lowered = <<>> THEN PyStr(<<>>)
            ELSE IF lowered \in text_utils_keywords THEN PyStr(lowered)
            ELSE IF singular_noun_raises(inflect_release, lowered)
                 THEN Raised("TypeCheckError")
                 ELSE IF IsPluralNoun(lowered) /\ singular_noun(lowered) # <<>>
                      THEN PyStr(singular_noun(lowered))
                      ELSE PyStr(lowered)

(***************************************************************************)
(* Non-punishment filter (metrics.remove_non_punished_from_unmatched).     *)
(* A non-punishment map is a function from dataset names to the rules of   *)
(* the dataset, a list of <<parent, children>> in the order of the dict.   *)
(***************************************************************************)
OPT == <<"(", "o", "p", "t", ")">>

\* item.replace("(opt)", "").replace("(sil)", "").strip()
StripMarkers(item) == Strip(Replace(Replace(item, OPT, <<>>), SIL, <<>>))

\* non_punishment_mapping.get(dataset, {})
ChildrenMap_first(mapping, dataset) ==
    IF dataset \in DOMAIN mapping THEN mapping[dataset]
    ELSE mapping[CHOOSE d \in DOMAIN mapping : mapping[d] # <<>>]
ChildrenMap(mapping, dataset) ==
    IF dataset \in DOMAIN mapping THEN mapping[dataset] ELSE <<>>

NormalizedMatched(matched) ==
    {normalize_word(StripMarkers(matched[k])) : k \in DOMAIN matched}

\* the condition under which a rule exempts an item
RuleExempts_parentOnly(parent, children, clean_item, normalized_matched) ==
    /\ normalize_word(parent) \in normalized_matched
    /\ clean_item \in {normalize_word(children[j]) : j \in DOMAIN children}
RuleExempts(parent, children, clean_item, normalized_matched) ==
    /\ \/ normalize_word(parent) \in normalized_matched
       \/ \E j \in DOMAIN children :
             normalize_word(children[j]) \in normalized_matched
    /\ clean_item \in {normalize_word(children[j]) : j \in DOMAIN children}

RECURSIVE ExemptingRule(_, _, _, _)
\* the inner loop: the first rule, from k on, that exempts the item (0: none)
ExemptingRule(clean_item, children_map, k, normalized_matched) ==
    IF k > Len(children_map) THEN 0
    ELSE IF RuleExempts(children_map[k][1], children_map[k][2], clean_item,
                        normalized_matched)
         THEN k
         ELSE ExemptingRule(clean_item, children_map, k + 1, normalized_matched)

RECURSIVE PruneFrom(_, _, _, _, _, _)
\* the outer loop from item k on
PruneFrom(unmatched, k, children_map, normalized_matched, pruned, lg) ==
    IF k > Len(unmatched) THEN [unmatched |-> pruned, log |-> lg]
    ELSE LET item == unmatched[k]
             clean_item == normalize_word(StripMarkers(item))
             r == ExemptingRule(clean_item, children_map, 1, normalized_matched)
         IN IF r = 0
            THEN PruneFrom(unmatched, k + 1, children_map, normalized_matched,
                           Append(pruned, item), lg)
            ELSE PruneFrom(unmatched, k + 1, children_map, normalized_matched,
                           pruned,
                           Append(lg, [kind |-> "Non-punish", item |-> item,
                                       parent |-> children_map[r][1]]))

remove_non_punished_from_unmatched(unmatched, matched, mapping, dataset, lg) ==
    LET children_map == ChildrenMap(mapping, dataset)
    IN IF children_map = <<>> THEN [unmatched |-> unmatched, log |-> lg]
       ELSE PruneFrom(unmatched, 1, children_map, NormalizedMatched(matched),
                      <<>>, lg)

(***************************************************************************)
(* Metrics computer.  Scores are held in thousandths, so that round(x, 3)  *)
(* of a score x is the integer nearest to the score in thousandths.        *)
(***************************************************************************)
\* round(x, 3) in thousandths for x = n/d thousandths, halves to the even
\* neighbour
Round3_truncating(n, d) == n \div d
Round3(n, d) ==
    LET q == n \div d
        r == n % d
    IN IF 2 * r < d THEN q
       ELSE IF 2 * r > d THEN q + 1
       ELSE IF q % 2 = 0 THEN q ELSE q + 1

\* calculate_f_measure for precision and recall in thousandths and
\* beta = bn/bd: the score it returns, as the quotient <<n, d>> in
\* thousandths (<<0, 1>> for 0.0)
calculate_f_measure(precision, recall, bn, bd) ==
    IF precision + recall = 0 THEN <<0, 1>>
    ELSE <<(bd * bd + bn * bn) * precision * recall,
           bn * bn * precision + bd * bd * recall>>

\* tp = len(matched)
CountTP_goldOnly(matched) ==
    Len(SelectSeq(matched, LAMBDA e : ~StartsWith(e, SIL)))
CountTP(matched) == Len(matched)

compute_metrics(matched, unmatched, remaining_gold, round_idx) ==
    LET tp == CountTP(matched)
        fp == Len(unmatched)
        fn == Cardinality(remaining_gold)
        total == tp + fp
        prec == IF total # 0 THEN Round3(1000 * tp, total) ELSE 0
        rec == IF tp + fn # 0 THEN Round3(1000 * tp, tp + fn) ELSE 0
        f05 == calculate_f_measure(prec, rec, 1, 2)
        f1 == calculate_f_measure(prec, rec, 1, 1)
        f2 == calculate_f_measure(prec, rec, 2, 1)
    IN [Round |-> round_idx + 1,
        TotalIdentified |-> Len(matched) + Len(unmatched),
        TP |-> tp,
        FP |-> fp,
        FN |-> fn,
        Precision |-> prec,
        Recall |-> rec,
        F05 |-> Round3(f05[1], f05[2]),
        F1 |-> Round3(f1[1], f1[2]),
        F2 |-> Round3(f2[1], f2[2])]

(***************************************************************************)
(* State.                                                                  *)
(***************************************************************************)
VARIABLES
    caller,             \* "run_experiment" or "evaluation_experiment"
    round,              \* rounds started so far
    pc,                 \* position in the matcher: idle, exact, syn, return,
                        \* returned, raised
    heap,               \* contents of the set objects, by reference
    gold_standard,      \* reference of the gold set of the dataset
    silver_standard,    \* reference of the silver set of the dataset
    synonym_map,        \* flat synonym map
    words,              \* terms (or pairs) of the round
    is_optional,        \* their optional flags
    remaining_gold_all, \* reference of the full view
    remaining_gold_man, \* reference of the mandatory view
    remaining_silv,     \* reference of the working silver set
    mand_matched, opt_matched, mand_un, opt_un,
    log,
    unmatched_indices,
    idx,                \* loop position of the current pass
    claimed,            \* history: the reference items consumed in this call
    \* one call of remove_non_punished_from_unmatched
    np_pc, np_unmatched, np_matched, np_mapping, np_dataset, np_log,
    np_result,
    \* calls of compute_metrics on the same arguments
    cm_matched, cm_unmatched, cm_remaining_gold, cm_round_idx, cm_records,
    \* successive calls of a normalize_word, each on the answer of the last
    nw_release,         \* the installed inflect
    nw_module,          \* "data_utils" or "text_utils"
    nw_word,            \* the argument of the first call
    nw_answers,         \* the answers of the calls so far
    \* one call of an evaluation entry point
    ep_caller,          \* "run_experiment" or "evaluation_experiment"
    ep_pc,              \* start, prepared or loaded, ready, done, raised
    ep_dataset,         \* the dataset argument
    ep_report,          \* whether the report of the dataset is on disk
    ep_silver_table,    \* the silver table
    ep_synonym_table,   \* the synonym table
    ep_error,           \* the exception that ended the call
    ep_dirs,            \* directories made
    ep_files,           \* files written
    \* the calls of generate_candidates of a synonym pass
    gc_pc,              \* caller, loop, returned, done
    gc_elements,        \* the elements the pass calls it on, in turn
    gc_mapping,         \* mapping.items(), in the order of the dict
    gc_next,            \* the element of the current call
    gc_k,               \* position of the loop over the entries
    gc_candidates,      \* the set candidates
    gc_results,         \* the sets returned so far
    \* two calls of a matcher with the same standards and synonym map
    tr_mode,            \* the input of the second call: "same", the input of
                        \* the first, or "mandatory", its mandatory terms
    tr_first,           \* the input and the return value of the first call
    \* one call of text_utils.deduplicate_associations
    da_pc,              \* loop, returned
    da_assocs,          \* the argument
    da_i,               \* position of the loop over assocs
    da_seen,            \* the dict seen, as the list of its items
    da_out, da_mandatory, da_optional,
    \* one call of generation_utils.process_steps
    ps_pc,              \* step1, loop, returned
    ps_instructions,    \* the instructions: the system prompt, then the
                        \* prompts of the steps from the second on
    ps_task,            \* "class" or "association"
    ps_step,            \* the step of the loop
    ps_conversation, ps_responses,
    ps_calls,           \* history: the API calls made, with their outcome
    \* the generation runs on one output directory
    gr_pc,              \* idle, writing
    gr_exists,          \* whether the output directory exists
    gr_files,           \* the .txt files of the output directory
    gr_rounds,          \* args.rounds of the current run
    gr_round_num,       \* round_num of the current run
    gr_r,               \* the round of the loop of the current run
    gr_run,             \* history: the number of the current run
    gr_author,          \* history: the run that wrote each file, 0 if none
    gr_overwritten      \* history: the round files of earlier runs that a
                        \* later run wrote over

matcher_vars == <<caller, round, pc, heap, gold_standard, silver_standard,
                  synonym_map, words, is_optional, remaining_gold_all,
                  remaining_gold_man, remaining_silv, mand_matched,
                  opt_matched, mand_un, opt_un, log, unmatched_indices, idx,
                  claimed>>
np_vars == <<np_pc, np_unmatched, np_matched, np_mapping, np_dataset, np_log,
             np_result>>
cm_vars == <<cm_matched, cm_unmatched, cm_remaining_gold, cm_round_idx,
             cm_records>>
nw_vars == <<nw_release, nw_module, nw_word, nw_answers>>
ep_vars == <<ep_caller, ep_pc, ep_dataset, ep_report, ep_silver_table,
             ep_synonym_table, ep_error, ep_dirs, ep_files>>
gc_vars == <<gc_pc, gc_elements, gc_mapping, gc_next, gc_k, gc_candidates,
             gc_results>>
tr_vars == <<tr_mode, tr_first>>
da_vars == <<da_pc, da_assocs, da_i, da_seen, da_out, da_mandatory,
             da_optional>>
ps_vars == <<ps_pc, ps_instructions, ps_task, ps_step, ps_conversation,
             ps_responses, ps_calls>>
gr_vars == <<gr_pc, gr_exists, gr_files, gr_rounds, gr_round_num, gr_r,
             gr_run, gr_author, gr_overwritten>>
vars == <<matcher_vars, np_vars, cm_vars, nw_vars, ep_vars, gc_vars, tr_vars,
         da_vars, ps_vars, gr_vars>>

\* references of the set objects
Refs == {"gold", "silver", "all", "man", "silv"}
\* the objects a call of a matcher allocates
WorkingRefs == {"all", "man", "silv"}

(***************************************************************************)
(* Set objects.                                                            *)
(***************************************************************************)
\* copy.copy(obj): the reference of the new object, allocated at `fresh`
copy_alias(obj, fresh) == obj
copy_copy(obj, fresh) == fresh

\* the heap after copy.copy(obj) returned `ref`
HeapAfterCopy_fromSilver(h, obj, ref) == [h EXCEPT ![ref] = h["silver"]]
HeapAfterCopy(h, obj, ref) == [h EXCEPT ![ref] = h[obj]]

\* set.remove(x) on the object at ref; the caller checks membership
SetRemove_keeps(h, ref, x) == h
SetRemove(h, ref, x) == [h EXCEPT ![ref] = @ \ {x}]

(***************************************************************************)
(* The round loops of run_experiment and evaluation_experiment: each round *)
(* reads one sheet and calls the matcher with the standards of the         *)
(* dataset.  The call runs the matcher's prologue: the three working       *)
(* copies and the empty result lists.                                      *)
(***************************************************************************)
\* remaining_gold_man = copy.copy(gold_standard), beside the full view
MandatoryView_shared(all) == all
MandatoryView(all) == copy_copy(gold_standard, "man")

EnterMatcher(ws, opts) ==
    LET all == copy_copy(gold_standard, "all")
        h1 == HeapAfterCopy(heap, gold_standard, all)
        man == MandatoryView(all)
        h2 == HeapAfterCopy(h1, gold_standard, man)
        silv == copy_copy(silver_standard, "silv")
        h3 == HeapAfterCopy(h2, silver_standard, silv)
    IN /\ words' = ws
       /\ is_optional' = opts
       /\ remaining_gold_all' = all
       /\ remaining_gold_man' = man
       /\ remaining_silv' = silv
       /\ heap' = h3
       /\ mand_matched' = <<>>
       /\ opt_matched' = <<>>
       /\ mand_un' = <<>>
       /\ opt_un' = <<>>
       /\ log' = <<>>
       /\ unmatched_indices' = <<>>
       /\ claimed' = <<>>
       /\ idx' = 1
       /\ pc' = IF Len(ws) = 0 THEN "return" ELSE "exact"
       /\ round' = round + 1
       /\ UNCHANGED <<caller, gold_standard, silver_standard, synonym_map>>
       /\ UNCHANGED <<np_vars, cm_vars, nw_vars, ep_vars, gc_vars, tr_vars,
                      da_vars, ps_vars, gr_vars>>

\* the sheets a round can hold: terms with their flags, equally long
Sheets(terms) ==
    {<<ws, opts>> \in SeqsUpTo(terms, MaxTerms) \X SeqsUpTo(BOOLEAN, MaxTerms) :
        Len(ws) = Len(opts)}

RunExperimentRound ==
    /\ caller = "run_experiment"
    /\ pc = "idle"
    /\ round < MaxRounds
    /\ \E sheet \in Sheets(ClassTerms) : EnterMatcher(sheet[1], sheet[2])

EvaluationExperimentRound ==
    /\ caller = "evaluation_experiment"
    /\ pc = "idle"
    /\ round < MaxRounds
    /\ \E sheet \in Sheets(AssocPairs) : EnterMatcher(sheet[1], sheet[2])

(***************************************************************************)
(* Steps shared by the two matchers.                                       *)
(***************************************************************************)
\* the position after iteration i of the exact pass
AfterExact_eager(i, unmatched) ==
    IF unmatched # <<>> THEN "syn"
    ELSE IF i < Len(words) THEN "exact" ELSE "return"
AfterExact(i, unmatched) ==
    IF i < Len(words) THEN "exact"
    ELSE IF unmatched = <<>> THEN "return" ELSE "syn"

\* the position after iteration k of the synonym pass
AfterSyn(k) == IF k < Len(unmatched_indices) THEN "syn" ELSE "return"

\* the loop index after an iteration that leads to position p
NextIdx(p) == IF p = pc THEN idx + 1 ELSE 1

\* the term consumes gold item c: out of the full view, and out of the
\* mandatory view when the term is mandatory (set.remove raises KeyError on a
\* missing item)
MatchGold_bothViews(i, w, opt, c, pass, lines, next) ==
    LET h1 == SetRemove(heap, remaining_gold_all, c)
        raises == c \notin h1[remaining_gold_man]
    IN /\ heap' = IF raises THEN h1
                  ELSE SetRemove(h1, remaining_gold_man, c)
       /\ mand_matched' = IF ~opt /\ ~raises THEN Append(mand_matched, w)
                          ELSE mand_matched
       /\ opt_matched' = IF opt THEN Append(opt_matched, w) ELSE opt_matched
       /\ log' = IF raises THEN log ELSE log \o lines
       /\ claimed' = Append(claimed,
              [i |-> i, item |-> c, tier |-> "gold", pass |-> pass])
       /\ pc' = IF raises THEN "raised" ELSE next
       /\ idx' = IF raises THEN idx ELSE NextIdx(next)
       /\ UNCHANGED <<mand_un, opt_un>>
MatchGold(i, w, opt, c, pass, lines, next) ==
    LET h1 == SetRemove(heap, remaining_gold_all, c)
        raises == ~opt /\ c \notin h1[remaining_gold_man]
    IN /\ heap' = IF opt \/ raises THEN h1
                  ELSE SetRemove(h1, remaining_gold_man, c)
       /\ mand_matched' = IF ~opt /\ ~raises THEN Append(mand_matched, w)
                          ELSE mand_matched
       /\ opt_matched' = IF opt THEN Append(opt_matched, w) ELSE opt_matched
       /\ log' = IF raises THEN log ELSE log \o lines
       /\ claimed' = Append(claimed,
              [i |-> i, item |-> c, tier |-> "gold", pass |-> pass])
       /\ pc' = IF raises THEN "raised" ELSE next
       /\ idx' = IF raises THEN idx ELSE NextIdx(next)
       /\ UNCHANGED <<mand_un, opt_un>>

\* the term consumes silver item c and is recorded with the silver tag
MatchSilver_mandatoryBucket(i, entry, opt, c, pass, lines, next) ==
    /\ heap' = SetRemove(heap, remaining_silv, c)
    /\ mand_matched' = Append(mand_matched, entry)
    /\ opt_matched' = opt_matched
    /\ log' = log \o lines
    /\ claimed' = Append(claimed,
           [i |-> i, item |-> c, tier |-> "silver", pass |-> pass])
    /\ pc' = next
    /\ idx' = NextIdx(next)
    /\ UNCHANGED <<mand_un, opt_un>>
MatchSilver(i, entry, opt, c, pass, lines, next) ==
    /\ heap' = SetRemove(heap, remaining_silv, c)
    /\ mand_matched' = IF opt THEN mand_matched ELSE Append(mand_matched, entry)
    /\ opt_matched' = IF opt THEN Append(opt_matched, entry) ELSE opt_matched
    /\ log' = log \o lines
    /\ claimed' = Append(claimed,
           [i |-> i, item |-> c, tier |-> "silver", pass |-> pass])
    /\ pc' = next
    /\ idx' = NextIdx(next)
    /\ UNCHANGED <<mand_un, opt_un>>

\* the term stays unmatched for good
NoMatch_mandatoryOnly(w, opt, next) ==
    /\ mand_un' = IF opt THEN mand_un ELSE Append(mand_un, w)
    /\ opt_un' = opt_un
    /\ pc' = next
    /\ idx' = NextIdx(next)
    /\ UNCHANGED <<heap, mand_matched, opt_matched, log, claimed>>
NoMatch(w, opt, next) ==
    /\ mand_un' = IF opt THEN mand_un ELSE Append(mand_un, w)
    /\ opt_un' = IF opt THEN Append(opt_un, w) ELSE opt_un
    /\ pc' = next
    /\ idx' = NextIdx(next)
    /\ UNCHANGED <<heap, mand_matched, opt_matched, log, claimed>>

\* what a step of a matcher leaves alone
MatcherFrame ==
    /\ UNCHANGED <<caller, round, gold_standard, silver_standard,
                   synonym_map, words, is_optional, remaining_gold_all,
                   remaining_gold_man, remaining_silv>>
    /\ UNCHANGED <<np_vars, cm_vars, nw_vars, ep_vars, gc_vars, tr_vars,
                   da_vars, ps_vars, gr_vars>>

(***************************************************************************)
(* perform_matching (classes).                                             *)
(***************************************************************************)
\* f"(sil){w}" for a term
TagSilver_missing(w) == w
TagSilver(w) == SIL \o w

\* w.split("/") if "/" in w else [w]
Variants(w) == IF IsSubstring(<<"/">>, w) THEN Split(w, "/") ELSE <<w>>

\* the exact pass trying the first variant only
ExactVariant_firstOnly(variants, j, gold_all, silv) ==
    IF variants[1] \in gold_all \/ variants[1] \in silv THEN 1 ELSE 0
RECURSIVE ExactVariant(_, _, _, _)
\* the first variant, from j on, that is in the full view or in silver
\* (0: none)
ExactVariant(variants, j, gold_all, silv) ==
    IF j > Len(variants) THEN 0
    ELSE IF variants[j] \in gold_all \/ variants[j] \in silv THEN j
         ELSE ExactVariant(variants, j + 1, gold_all, silv)

RECURSIVE SynVariant(_, _, _, _, _)
\* the first variant, from j on, with a candidate in the full view or in
\* silver (0: none)
SynVariant(variants, j, mapping, gold_all, silv) ==
    IF j > Len(variants) THEN 0
    ELSE IF generate_candidates(variants[j], mapping) \cap (gold_all \cup silv) # {}
         THEN j
         ELSE SynVariant(variants, j + 1, mapping, gold_all, silv)

\* one iteration of the exact pass
PM_ExactStep ==
    /\ caller = "run_experiment"
    /\ pc = "exact"
    /\ LET w == words[idx]
           opt == is_optional[idx]
           variants == Variants(w)
           gold_all == heap[remaining_gold_all]
           silv == heap[remaining_silv]
           j == ExactVariant(variants, 1, gold_all, silv)
       IN IF j = 0
          THEN /\ unmatched_indices' = Append(unmatched_indices, idx)
               /\ pc' = AfterExact(idx, unmatched_indices')
               /\ idx' = NextIdx(pc')
               /\ UNCHANGED <<heap, mand_matched, opt_matched, mand_un,
                              opt_un, log, claimed>>
          ELSE /\ UNCHANGED unmatched_indices
               /\ IF variants[j] \in gold_all
                  THEN MatchGold(idx, w, opt, variants[j], "exact", <<>>,
                                 AfterExact(idx, unmatched_indices))
                  ELSE MatchSilver(idx, TagSilver(w), opt, variants[j], "exact",
                           <<[kind |-> "Silver exact matched", opt |-> opt,
                              w |-> w]>>,
                           AfterExact(idx, unmatched_indices))
    /\ MatcherFrame

\* one iteration of the synonym pass; the candidates of a variant are a set
\* and are visited in no fixed order, so the first candidate found in the
\* full view or in silver can be any of those that are in either
PM_SynStep ==
    /\ caller = "run_experiment"
    /\ pc = "syn"
    /\ LET i == unmatched_indices[idx]
           w == words[i]
           opt == is_optional[i]
           variants == Variants(w)
           gold_all == heap[remaining_gold_all]
           silv == heap[remaining_silv]
           j == SynVariant(variants, 1, synonym_map, gold_all, silv)
       IN IF j = 0
          THEN NoMatch(w, opt, AfterSyn(idx))
          ELSE \E c \in generate_candidates(variants[j], synonym_map)
                            \cap (gold_all \cup silv) :
                  IF c \in gold_all
                  THEN MatchGold(i, w, opt, c, "syn",
                           <<[kind |-> "Gold syn", opt |-> opt, w |-> w,
                              c |-> c]>>,
                           AfterSyn(idx))
                  ELSE MatchSilver(i, TagSilver(w), opt, c, "syn",
                           <<[kind |-> "Silv syn", opt |-> opt, w |-> w,
                              c |-> c]>>,
                           AfterSyn(idx))
    /\ UNCHANGED unmatched_indices
    /\ MatcherFrame

\* the lines the matchers append for the four buckets
SummaryLines ==
    [k \in 1..Len(mand_matched) |-> [kind |-> "Matched", opt |-> FALSE, w |-> mand_matched[k]]]
    \o [k \in 1..Len(opt_matched) |-> [kind |-> "Matched", opt |-> TRUE, w |-> opt_matched[k]]]
    \o [k \in 1..Len(mand_un) |-> [kind |-> "Unmatched", opt |-> FALSE, w |-> mand_un[k]]]
    \o [k \in 1..Len(opt_un) |-> [kind |-> "Unmatched", opt |-> TRUE, w |-> opt_un[k]]]

\* the final log entries and the return
PM_Return ==
    /\ caller = "run_experiment"
    /\ pc = "return"
    /\ log' = log \o SummaryLines
    /\ pc' = "returned"
    /\ UNCHANGED <<heap, mand_matched, opt_matched, mand_un, opt_un,
                   unmatched_indices, idx, claimed>>
    /\ MatcherFrame

(***************************************************************************)
(* perform_matching_associations.                                          *)
(***************************************************************************)
\* str(w) of a pair of strings, as f"(sil){w}" formats it
Repr(w) ==
    <<"(", "'">> \o w[1] \o <<"'", ",", " ", "'">> \o w[2] \o <<"'", ")">>

\* f"(sil){w}" for a pair
TagSilverPair(w) == SIL \o Repr(w)

\* frozenset({cx, cy}) for every combination of candidates of the two sides
CandidatePairs_leftOnly(X, Y, mapping) ==
    {{cx, Y} : cx \in generate_candidates(X, mapping)}
CandidatePairs(X, Y, mapping) ==
    {{cx, cy} : cx \in generate_candidates(X, mapping),
                cy \in generate_candidates(Y, mapping)}

\* one iteration of the exact pass
PMA_ExactStep ==
    /\ caller = "evaluation_experiment"
    /\ pc = "exact"
    /\ LET w == words[idx]
           opt == is_optional[idx]
           original == {w[1], w[2]}
       IN IF original \in heap[remaining_gold_all]
          THEN /\ MatchGold(idx, w, opt, original, "exact", <<>>,
                            AfterExact(idx, unmatched_indices))
               /\ UNCHANGED unmatched_indices
          ELSE IF original \in heap[remaining_silv]
          THEN /\ MatchSilver(idx, TagSilverPair(w), opt, original, "exact",
                       <<[kind |-> "Silver exact matched", opt |-> opt,
                          w |-> w]>>,
                       AfterExact(idx, unmatched_indices))
               /\ UNCHANGED unmatched_indices
          ELSE /\ unmatched_indices' = Append(unmatched_indices, idx)
               /\ pc' = AfterExact(idx, unmatched_indices')
               /\ idx' = NextIdx(pc')
               /\ UNCHANGED <<heap, mand_matched, opt_matched, mand_un,
                              opt_un, log, claimed>>
    /\ MatcherFrame

\* the set the synonym pass of a pair takes its item from: the two loops
\* over the combinations, the one against gold before the one against silver
PairSynTier_silverFirst(pairs, gold_all, silv) ==
    IF pairs \cap silv # {} THEN "silver"
    ELSE IF pairs \cap gold_all # {} THEN "gold"
    ELSE "none"
PairSynTier(pairs, gold_all, silv) ==
    IF pairs \cap gold_all # {} THEN "gold"
    ELSE IF pairs \cap silv # {} THEN "silver"
    ELSE "none"

\* one iteration of the synonym pass: all combinations against gold first,
\* then all combinations against silver; the candidate sets are visited in
\* no fixed order
PMA_SynStep ==
    /\ caller = "evaluation_experiment"
    /\ pc = "syn"
    /\ LET i == unmatched_indices[idx]
           w == words[i]
           opt == is_optional[i]
           pairs == CandidatePairs(w[1], w[2], synonym_map)
           in_gold == pairs \cap heap[remaining_gold_all]
           in_silv == pairs \cap heap[remaining_silv]
           tier == PairSynTier(pairs, heap[remaining_gold_all],
                               heap[remaining_silv])
       IN IF tier = "gold"
          THEN \E cand_pair \in in_gold :
                  MatchGold(i, w, opt, cand_pair, "syn",
                      <<[kind |-> "Gold Syn", opt |-> opt, w |-> w,
                         c |-> cand_pair]>>,
                      AfterSyn(idx))
          ELSE IF tier = "silver"
          THEN \E cand_pair \in in_silv :
                  MatchSilver(i, TagSilverPair(w), opt, cand_pair, "syn",
                      <<[kind |-> "Silv Syn", opt |-> opt, w |-> w,
                         c |-> cand_pair]>>,
                      AfterSyn(idx))
          ELSE NoMatch(w, opt, AfterSyn(idx))
    /\ UNCHANGED unmatched_indices
    /\ MatcherFrame

\* the final log entries (the items still missing are listed in the set's
\* own order: one entry carries them all) and the return
PMA_Return ==
    /\ caller = "evaluation_experiment"
    /\ pc = "return"
    /\ log' = log \o SummaryLines
                  \o <<[kind |-> "Missing", items |-> heap[remaining_gold_all]]>>
    /\ pc' = "returned"
    /\ UNCHANGED <<heap, mand_matched, opt_matched, mand_un, opt_un,
                   unmatched_indices, idx, claimed>>
    /\ MatcherFrame

\* the rest of the loop body reads the round's results (they go to the
\* metrics and the logs) and the next iteration rebinds every name
EndRound ==
    /\ pc = "returned"
    /\ pc' = "idle"
    /\ words' = <<>>
    /\ is_optional' = <<>>
    /\ mand_matched' = <<>>
    /\ opt_matched' = <<>>
    /\ mand_un' = <<>>
    /\ opt_un' = <<>>
    /\ log' = <<>>
    /\ unmatched_indices' = <<>>
    /\ claimed' = <<>>
    /\ idx' = 1
    /\ heap' = [heap EXCEPT ![remaining_gold_all] =
                    IF remaining_gold_all \in WorkingRefs THEN {} ELSE @,
                            ![remaining_gold_man] =
                    IF remaining_gold_man \in WorkingRefs THEN {} ELSE @,
                            ![remaining_silv] =
                    IF remaining_silv \in WorkingRefs THEN {} ELSE @]
    /\ UNCHANGED <<caller, round, gold_standard, silver_standard,
                   synonym_map, remaining_gold_all, remaining_gold_man,
                   remaining_silv>>
    /\ UNCHANGED <<np_vars, cm_vars, nw_vars, ep_vars, gc_vars, tr_vars,
                   da_vars, ps_vars, gr_vars>>

(***************************************************************************)
(* The variables of the functions a specification does not exercise.       *)
(***************************************************************************)
NoRecord == [kind |-> "none"]

MatcherIdle ==
    /\ caller = "none"
    /\ round = 0
    /\ pc = "off"
    /\ heap = [r \in Refs |-> {}]
    /\ gold_standard = "gold"
    /\ silver_standard = "silver"
    /\ synonym_map = <<>>
    /\ words = <<>>
    /\ is_optional = <<>>
    /\ remaining_gold_all = "all"
    /\ remaining_gold_man = "man"
    /\ remaining_silv = "silv"
    /\ mand_matched = <<>>
    /\ opt_matched = <<>>
    /\ mand_un = <<>>
    /\ opt_un = <<>>
    /\ log = <<>>
    /\ unmatched_indices = <<>>
    /\ idx = 1
    /\ claimed = <<>>

NonPunishIdle ==
    /\ np_pc = "off"
    /\ np_unmatched = <<>>
    /\ np_matched = <<>>
    /\ np_mapping = <<>>
    /\ np_dataset = ""
    /\ np_log = <<>>
    /\ np_result = NoRecord

MetricsIdle ==
    /\ cm_matched = <<>>
    /\ cm_unmatched = <<>>
    /\ cm_remaining_gold = {}
    /\ cm_round_idx = 0
    /\ cm_records = <<>>

NormalizerIdle ==
    /\ nw_release = "unchecked"
    /\ nw_module = "none"
    /\ nw_word = PyStr(<<>>)
    /\ nw_answers = <<>>

EntryIdle ==
    /\ ep_caller = "none"
    /\ ep_pc = "off"
    /\ ep_dataset = <<>>
    /\ ep_report = FALSE
    /\ ep_silver_table = <<>>
    /\ ep_synonym_table = <<>>
    /\ ep_error = "none"
    /\ ep_dirs = {}
    /\ ep_files = {}

CandidatesIdle ==
    /\ gc_pc = "off"
    /\ gc_elements = <<>>
    /\ gc_mapping = <<>>
    /\ gc_next = 0
    /\ gc_k = 0
    /\ gc_candidates = {}
    /\ gc_results = <<>>

\* no call has returned yet
NoRun == [words |-> <<>>, is_optional |-> <<>>, ret |-> <<>>]

TwoRunsIdle ==
    /\ tr_mode = "off"
    /\ tr_first = NoRun

DedupIdle ==
    /\ da_pc = "off"
    /\ da_assocs = <<>>
    /\ da_i = 0
    /\ da_seen = <<>>
    /\ da_out = <<>>
    /\ da_mandatory = <<>>
    /\ da_optional = <<>>

StepsIdle ==
    /\ ps_pc = "off"
    /\ ps_instructions = <<>>
    /\ ps_task = "none"
    /\ ps_step = 0
    /\ ps_conversation = <<>>
    /\ ps_responses = <<>>
    /\ ps_calls = <<>>

RoundsIdle ==
    /\ gr_pc = "off"
    /\ gr_exists = FALSE
    /\ gr_files = {}
    /\ gr_rounds = 0
    /\ gr_round_num = 0
    /\ gr_r = 0
    /\ gr_run = 0
    /\ gr_author = <<>>
    /\ gr_overwritten = {}

(***************************************************************************)
(* The evaluation of one dataset: the standards and the synonym map are    *)
(* built once, before the first round.                                     *)
(***************************************************************************)
Init ==
    /\ caller \in {"run_experiment", "evaluation_experiment"}
    /\ round = 0
    /\ pc = "idle"
    /\ gold_standard = "gold"
    /\ silver_standard = "silver"
    /\ \E gold \in SUBSET (IF caller = "run_experiment" THEN ClassItems ELSE AssocItems),
          silver \in SUBSET (IF caller = "run_experiment" THEN ClassItems ELSE AssocSilverItems) :
          heap = [r \in Refs |-> IF r = "gold" THEN gold
                                 ELSE IF r = "silver" THEN silver ELSE {}]
    /\ synonym_map \in SynonymMaps
    /\ words = <<>>
    /\ is_optional = <<>>
    /\ remaining_gold_all = "all"
    /\ remaining_gold_man = "man"
    /\ remaining_silv = "silv"
    /\ mand_matched = <<>>
    /\ opt_matched = <<>>
    /\ mand_un = <<>>
    /\ opt_un = <<>>
    /\ log = <<>>
    /\ unmatched_indices = <<>>
    /\ idx = 1
    /\ claimed = <<>>
    /\ NonPunishIdle
    /\ MetricsIdle
    /\ NormalizerIdle
    /\ EntryIdle
    /\ CandidatesIdle
    /\ TwoRunsIdle
    /\ DedupIdle
    /\ StepsIdle
    /\ RoundsIdle

Next ==
    \/ RunExperimentRound
    \/ PM_ExactStep
    \/ PM_SynStep
    \/ PM_Return
    \/ EvaluationExperimentRound
    \/ PMA_ExactStep
    \/ PMA_SynStep
    \/ PMA_Return
    \/ EndRound

Spec == Init /\ [][Next]_vars

(***************************************************************************)
(* One call of remove_non_punished_from_unmatched on drawn arguments.      *)
(***************************************************************************)
\* longest list of unmatched or matched terms
MaxList == 2

sF == <<"f">>
sFs == <<"f", "s">>
sMF == <<"m", " ", "f">>
sMFs == <<"m", " ", "f", "s">>
sCamelMF == <<"m", "F">>
sT == <<"t">>
sV == <<"v">>
sW == <<"w">>
sX == <<"x">>
sQ == <<"q">>

\* unmatched terms, one of them with the optional marker
NPUnmatchedTerms == {sT, sMF, sMFs, OPT \o <<"m", "f">>, sV}
\* matched terms, some with the silver tag, and with the optional marker
NPMatchedTerms == {sF, SIL \o sFs, OPT \o sW, sT, sQ}

\* a non-punishment table: one dataset with one rule, one with two rules
\* that share a child, one whose entry is empty
NonPunishTable ==
    [camperplus |-> << <<sF, <<sCamelMF, sMF, sMF>> >> >>,
     school |-> << <<sX, <<sV>> >>, <<sQ, <<sW, sV>> >> >>,
     sports |-> <<>>]

NPDatasets == {"camperplus", "school", "sports", "grocery"}

NPLogs == {<<>>, <<[kind |-> "Matched", opt |-> FALSE, w |-> sF]>>}

InitNonPunish ==
    /\ np_pc = "ready"
    /\ np_unmatched \in SeqsUpTo(NPUnmatchedTerms, MaxList)
    /\ np_matched \in SeqsUpTo(NPMatchedTerms, MaxList)
    /\ np_mapping = NonPunishTable
    /\ np_dataset \in NPDatasets
    /\ np_log \in NPLogs
    /\ np_result = NoRecord
    /\ MatcherIdle
    /\ MetricsIdle
    /\ NormalizerIdle
    /\ EntryIdle
    /\ CandidatesIdle
    /\ TwoRunsIdle
    /\ DedupIdle
    /\ StepsIdle
    /\ RoundsIdle

NP_Call ==
    /\ np_pc = "ready"
    /\ np_result' = remove_non_punished_from_unmatched(
                        np_unmatched, np_matched, np_mapping, np_dataset,
                        np_log)
    /\ np_pc' = "done"
    /\ UNCHANGED <<np_unmatched, np_matched, np_mapping, np_dataset, np_log>>
    /\ UNCHANGED <<matcher_vars, cm_vars, nw_vars, ep_vars, gc_vars, tr_vars,
                   da_vars, ps_vars, gr_vars>>

NextNonPunish == NP_Call

SpecNonPunish == InitNonPunish /\ [][NextNonPunish]_vars

(***************************************************************************)
(* Calls of compute_metrics on drawn arguments.                            *)
(***************************************************************************)
\* longest list of matched or unmatched entries
MaxCount == 5
\* calls made on the same arguments
MaxCalls == 2

\* items left in a gold view
RemainingItems == {sA, sB, sC}

InitMetrics ==
    /\ cm_matched \in SeqsUpTo({sA, SIL \o sA}, MaxCount)
    /\ cm_unmatched \in SeqsUpTo({sB}, MaxCount)
    /\ cm_remaining_gold \in SUBSET RemainingItems
    /\ cm_round_idx \in {0, 1}
    /\ cm_records = <<>>
    /\ MatcherIdle
    /\ NonPunishIdle
    /\ NormalizerIdle
    /\ EntryIdle
    /\ CandidatesIdle
    /\ TwoRunsIdle
    /\ DedupIdle
    /\ StepsIdle
    /\ RoundsIdle

CM_Call ==
    /\ Len(cm_records) < MaxCalls
    /\ cm_records' = Append(cm_records,
           compute_metrics(cm_matched, cm_unmatched, cm_remaining_gold,
                           cm_round_idx))
    /\ UNCHANGED <<cm_matched, cm_unmatched, cm_remaining_gold, cm_round_idx>>
    /\ UNCHANGED <<matcher_vars, np_vars, nw_vars, ep_vars, gc_vars, tr_vars,
                   da_vars, ps_vars, gr_vars>>

NextMetrics == CM_Call

SpecMetrics == InitMetrics /\ [][NextMetrics]_vars

(***************************************************************************)
(* Calls of a normalize_word: on a drawn value, then on its own answer.    *)
(***************************************************************************)
\* longest drawn word
MaxWordLen == 3
\* calls in a row
MaxApplications == 2

\* characters of the drawn words
WordChars == {"a", "s", "A", " "}

sClass == <<"c", "l", "a", "s", "s">>
sHiringProcess ==
    <<"h", "i", "r", "i", "n", "g", " ", "p", "r", "o", "c", "e", "s", "s">>

\* the values normalize_word is called on: short words, words of the
\* preserve-lists, and values that are no str (None, and the NaN of an
\* empty spreadsheet cell)
NormalizerInputs ==
    {PyStr(w) : w \in SeqsUpTo(WordChars, MaxWordLen)
                       \cup {sClass, sClass \o <<"s">>, sHiringProcess}}
        \cup {PyNone, PyNaN}

InitNormalize ==
    /\ nw_release \in InflectReleases
    /\ nw_module \in {"data_utils", "text_utils"}
    /\ nw_word \in NormalizerInputs
    /\ nw_answers = <<>>
    /\ MatcherIdle
    /\ NonPunishIdle
    /\ MetricsIdle
    /\ EntryIdle
    /\ CandidatesIdle
    /\ TwoRunsIdle
    /\ DedupIdle
    /\ StepsIdle
    /\ RoundsIdle

\* normalize_word of the module under call
NormalizeWordOf(module, inflect_release, word) ==
    IF module = "data_utils"
    THEN data_utils_normalize_word(inflect_release, word)
    ELSE text_utils_normalize_word(inflect_release, word)

\* one more call, on the argument or on the answer of the last call; an
\* exception ends the calls
NW_Call ==
    /\ Len(nw_answers) < MaxApplications
    /\ IF nw_answers = <<>> THEN TRUE
       ELSE nw_answers[Len(nw_answers)].type = "str"
    /\ LET arg == IF nw_answers = <<>> THEN nw_word
                  ELSE nw_answers[Len(nw_answers)]
       IN nw_answers' = Append(nw_answers,
                            NormalizeWordOf(nw_module, nw_release, arg))
    /\ UNCHANGED <<nw_release, nw_module, nw_word>>
    /\ UNCHANGED <<matcher_vars, np_vars, cm_vars, ep_vars, gc_vars, tr_vars,
                   da_vars, ps_vars, gr_vars>>

NextNormalize == NW_Call

SpecNormalize == InitNormalize /\ [][NextNormalize]_vars

(***************************************************************************)
(* One call of an evaluation entry point, run_experiment (classes) or      *)
(* evaluation_experiment (associations): the standards of the dataset are  *)
(* looked up in the tables and normalized, the report is loaded, its       *)
(* sheets are matched round by round, and the results are written.         *)
(***************************************************************************)
\* dataset names
dG == <<"g">>
dS == <<"s">>
\* the dataset arguments: a registered name, a registered name with a
\* capital, and a name without a gold standard
EntryDatasets == {dG, <<"S">>, <<"u">>}
\* the datasets with a gold standard
GoldKeys == {dG, dS}

\* GOLD_STANDARD_CLASS and SILVER_STANDARD_CLASS: lists of words
GoldStandardClass == [k \in GoldKeys |-> <<<<"A", "s">>>>]
SilverClassEntry == <<<<"B">>>>
\* GOLD_STANDARD_ASSOCIATION and SILVER_STANDARD_ASSOCIATION: lists of pairs
GoldStandardAssociation == [k \in GoldKeys |-> <<<<<<"A", "s">>, <<"B">>>>>>]
SilverAssociationEntry == <<<<<<"a">>, <<"D">>>>>>
\* an entry of SYNONYM_DICT_CLASS: standard term -> synonyms
SynonymEntry == <<<<<<"A">>, <<<<"C", "s">>>>>>>>

\* NON_PUNISH_CLASS: rules for dataset s only
NonPunishClass == [k \in {dS} |-> << <<sA, <<sB, sC>> >> >>]

\* the sub-tables the call can find: with an entry for every dataset that
\* has a gold standard, or without an entry for dataset g
SubTables(entry) ==
    {[k \in K |-> entry] : K \in {GoldKeys, GoldKeys \ {dG}}}

\* the files an entry point writes at its end
ResultFiles(c) ==
    {IF c = "run_experiment" THEN "unmatched.xlsx" ELSE "false_positives.xlsx",
     "experiment_log.txt", "experiment_results.xlsx"}

InitEntry ==
    /\ ep_caller \in {"run_experiment", "evaluation_experiment"}
    /\ ep_pc = "start"
    /\ ep_dataset \in EntryDatasets
    /\ ep_report \in BOOLEAN
    /\ ep_silver_table \in SubTables(IF ep_caller = "run_experiment"
                                     THEN SilverClassEntry
                                     ELSE SilverAssociationEntry)
    /\ ep_synonym_table \in SubTables(SynonymEntry)
    /\ ep_error = "none"
    /\ ep_dirs = {}
    /\ ep_files = {}
    /\ MatcherIdle
    /\ NonPunishIdle
    /\ MetricsIdle
    /\ NormalizerIdle
    /\ CandidatesIdle
    /\ TwoRunsIdle
    /\ DedupIdle
    /\ StepsIdle
    /\ RoundsIdle

\* the call ends with exception exc
EntryRaise(exc) ==
    /\ ep_pc' = "raised"
    /\ ep_error' = exc
    /\ UNCHANGED <<caller, pc, heap, synonym_map>>

\* what the steps of an entry point outside the round loop leave alone
EntryFrame ==
    /\ UNCHANGED <<ep_caller, ep_dataset, ep_report, ep_silver_table,
                   ep_synonym_table, ep_files>>
    /\ UNCHANGED <<round, gold_standard, silver_standard, words, is_optional,
                   remaining_gold_all, remaining_gold_man, remaining_silv,
                   mand_matched, opt_matched, mand_un, opt_un, log,
                   unmatched_indices, idx, claimed>>
    /\ UNCHANGED <<np_vars, cm_vars, nw_vars, gc_vars, tr_vars, da_vars,
                   ps_vars, gr_vars>>

\* dict.get(key, []) of a sub-table
TableGet(table, key) == IF key \in DOMAIN table THEN table[key] ELSE <<>>

\* table[key]: the entry, or a KeyError
TableIndex_get(table, key) ==
    [raises |-> FALSE, val |-> TableGet(table, key)]
TableIndex(table, key) ==
    [raises |-> key \notin DOMAIN table, val |-> TableGet(table, key)]

\* the standards and the synonym map bound to the names the rounds read
BindStandards(gold, silver, mapping) ==
    /\ heap' = [heap EXCEPT ![gold_standard] = gold,
                            ![silver_standard] = silver]
    /\ synonym_map' = mapping

\* run_experiment, lines 48-51: the standards and the synonym map
RE_Prepare ==
    /\ ep_caller = "run_experiment"
    /\ ep_pc = "start"
    /\ LET dataset_key == Lower(ep_dataset)
           gold == TableIndex(GoldStandardClass, dataset_key)
           synonyms == TableIndex(ep_synonym_table, dataset_key)
       IN IF gold.raises THEN EntryRaise("KeyError")
          ELSE IF synonyms.raises THEN EntryRaise("KeyError")
          ELSE /\ BindStandards(
                      {normalize_word(x) : x \in Range(gold.val)},
                      {normalize_word(x) :
                          x \in Range(TableGet(ep_silver_table, dataset_key))},
                      expand_synonym_mapping(synonyms.val))
               /\ ep_pc' = "prepared"
               /\ UNCHANGED <<ep_error, caller, pc>>
    /\ UNCHANGED ep_dirs
    /\ EntryFrame

\* run_experiment, lines 54-66: the output directory and the sheets
RE_Load ==
    /\ ep_caller = "run_experiment"
    /\ ep_pc = "prepared"
    /\ ep_dirs' = ep_dirs \cup {"out_dir"}
    /\ IF ~ep_report THEN EntryRaise("FileNotFoundError")
       ELSE /\ ep_pc' = "ready"
            /\ caller' = ep_caller
            /\ pc' = "idle"
            /\ UNCHANGED <<ep_error, heap, synonym_map>>
    /\ EntryFrame

\* evaluation_experiment, lines 34-40: the output directory and the sheets
EE_Load ==
    /\ ep_caller = "evaluation_experiment"
    /\ ep_pc = "start"
    /\ ep_dirs' = ep_dirs \cup {"out_dir"}
    /\ IF ~ep_report THEN EntryRaise("FileNotFoundError")
       ELSE /\ ep_pc' = "loaded"
            /\ UNCHANGED <<ep_error, caller, pc, heap, synonym_map>>
    /\ EntryFrame

\* frozenset(map(normalize_word, pair)), with text_utils.normalize_word
NormalizedPair(pair) ==
    {text_utils_normalize_word("unchecked", PyStr(pair[1])).val,
     text_utils_normalize_word("unchecked", PyStr(pair[2])).val}

\* evaluation_experiment, lines 43-52: the standards and the synonym map
EE_Prepare ==
    /\ ep_caller = "evaluation_experiment"
    /\ ep_pc = "loaded"
    /\ LET ds == Lower(ep_dataset)
           gold_raw == TableIndex(GoldStandardAssociation, ds)
           synonyms == TableIndex(ep_synonym_table, ds)
       IN IF gold_raw.raises THEN EntryRaise("KeyError")
          ELSE IF synonyms.raises THEN EntryRaise("KeyError")
          ELSE /\ BindStandards(
                      {NormalizedPair(pair) : pair \in Range(gold_raw.val)},
                      {NormalizedPair(pair) :
                          pair \in Range(TableGet(ep_silver_table, ds))},
                      expand_synonym_mapping(synonyms.val))
               /\ ep_pc' = "ready"
               /\ caller' = ep_caller
               /\ pc' = "idle"
               /\ UNCHANGED ep_error
    /\ UNCHANGED ep_dirs
    /\ EntryFrame

\* after the last sheet: the unmatched summary, the log and the results
EP_Write ==
    /\ ep_pc = "ready"
    /\ pc = "idle"
    /\ ep_files' = ep_files \cup ResultFiles(ep_caller)
    /\ ep_pc' = "done"
    /\ pc' = "off"
    /\ UNCHANGED <<ep_caller, ep_dataset, ep_report, ep_silver_table,
                   ep_synonym_table, ep_error, ep_dirs>>
    /\ UNCHANGED <<caller, round, heap, gold_standard, silver_standard,
                   synonym_map, words, is_optional, remaining_gold_all,
                   remaining_gold_man, remaining_silv, mand_matched,
                   opt_matched, mand_un, opt_un, log, unmatched_indices, idx,
                   claimed>>
    /\ UNCHANGED <<np_vars, cm_vars, nw_vars, gc_vars, tr_vars, da_vars,
                   ps_vars, gr_vars>>

NextEntry ==
    \/ RE_Prepare
    \/ RE_Load
    \/ EE_Load
    \/ EE_Prepare
    \/ RunExperimentRound
    \/ PM_ExactStep
    \/ PM_SynStep
    \/ PM_Return
    \/ EvaluationExperimentRound
    \/ PMA_ExactStep
    \/ PMA_SynStep
    \/ PMA_Return
    \/ EndRound
    \/ EP_Write

SpecEntry == InitEntry /\ [][NextEntry]_vars

(***************************************************************************)
(* generate_candidates, one loop iteration at a time, called by a synonym  *)
(* pass on one element after the other (specifications SpecCandidates and  *)
(* SpecCandidatesFair).                                                    *)
(***************************************************************************)
\* entries of a flat synonym map
MaxEntries == 3
\* elements a pass calls generate_candidates on
MaxElements == 2

sCA == <<"c", "a">>
sCspA == <<"c", " ", "a">>

\* entries: plain ones, a chain (c -> a, a -> b), and a standard that holds
\* its own synonym and the synonym of another entry (a -> c a), as
\* 'worker' -> 'camp worker' beside 'camp' -> 'camp worker'
CandidateEntries ==
    {<<sC, sA>>, <<sA, sB>>, <<sA, sCspA>>, <<sB, sC>>}

\* the items() of the dicts with at most MaxEntries of these entries: the
\* keys of a dict are distinct, the order is the insertion order
CandidateMappings ==
    {m \in SeqsUpTo(CandidateEntries, MaxEntries) :
        \A j1, j2 \in DOMAIN m : j1 # j2 => m[j1][1] # m[j2][1]}

\* elements: strings and a non-string cell
CandidateElements == {PyStr(sA), PyStr(sC), PyStr(sCA), PyNone}

InitCandidates ==
    /\ gc_pc = "caller"
    /\ gc_elements \in SeqsUpTo(CandidateElements, MaxElements) \ {<<>>}
    /\ gc_mapping \in CandidateMappings
    /\ gc_next = 1
    /\ gc_k = 0
    /\ gc_candidates = {}
    /\ gc_results = <<>>
    /\ MatcherIdle
    /\ NonPunishIdle
    /\ MetricsIdle
    /\ NormalizerIdle
    /\ EntryIdle
    /\ TwoRunsIdle
    /\ DedupIdle
    /\ StepsIdle
    /\ RoundsIdle

CandidatesFrame ==
    /\ UNCHANGED <<gc_elements, gc_mapping>>
    /\ UNCHANGED <<matcher_vars, np_vars, cm_vars, nw_vars, ep_vars, tr_vars,
                   da_vars, ps_vars, gr_vars>>

\* the call: set() for a non-string, else candidates = {element}
GC_Call ==
    /\ gc_pc = "caller"
    /\ LET element == gc_elements[gc_next]
       IN IF ~IsInstanceStr(element)
          THEN /\ gc_candidates' = {}
               /\ gc_pc' = "returned"
               /\ gc_k' = 0
          ELSE /\ gc_candidates' = {element.val}
               /\ gc_pc' = "loop"
               /\ gc_k' = 1
    /\ UNCHANGED <<gc_next, gc_results>>
    /\ CandidatesFrame

\* the position of the loop after the iteration on entry k
AfterEntry_onChange(k, candidates, new_set) ==
    IF new_set = candidates THEN k ELSE k + 1
AfterEntry(k, candidates, new_set) == k + 1

\* one iteration of the loop over mapping.items()
GC_Entry ==
    /\ gc_pc = "loop"
    /\ gc_k <= Len(gc_mapping)
    /\ LET key == gc_mapping[gc_k][1]
           val == gc_mapping[gc_k][2]
           new_set == CandidatesStep(gc_candidates, key, val)
       IN /\ gc_candidates' = new_set
          /\ gc_k' = AfterEntry(gc_k, gc_candidates, new_set)
    /\ UNCHANGED <<gc_pc, gc_next, gc_results>>
    /\ CandidatesFrame

\* the loop is over: return candidates
GC_Return ==
    /\ gc_pc = "loop"
    /\ gc_k > Len(gc_mapping)
    /\ gc_pc' = "returned"
    /\ UNCHANGED <<gc_next, gc_k, gc_candidates, gc_results>>
    /\ CandidatesFrame

\* the pass takes the set and goes on to its next element
GC_Resume ==
    /\ gc_pc = "returned"
    /\ gc_results' = Append(gc_results, gc_candidates)
    /\ gc_next' = gc_next + 1
    /\ gc_pc' = IF gc_next < Len(gc_elements) THEN "caller" ELSE "done"
    /\ UNCHANGED <<gc_k, gc_candidates>>
    /\ CandidatesFrame

NextCandidates ==
    \/ GC_Call
    \/ GC_Entry
    \/ GC_Return
    \/ GC_Resume

SpecCandidates == InitCandidates /\ [][NextCandidates]_vars

\* the interpreter runs the next statement as long as there is one
SpecCandidatesFair == SpecCandidates /\ WF_vars(NextCandidates)

(***************************************************************************)
(* Two calls of a matcher on the same standards and synonym map, the       *)
(* second on the input of the first or on its mandatory terms only; the    *)
(* candidate sets of each call are traversed in an order of their own      *)
(* (specification SpecTwoRuns).                                            *)
(***************************************************************************)
RECURSIVE Mandatory(_, _, _)
\* the entries of list from position k on whose flag is not set
Mandatory(list, flags, k) ==
    IF k > Len(list) THEN <<>>
    ELSE IF flags[k] THEN Mandatory(list, flags, k + 1)
         ELSE <<list[k]>> \o Mandatory(list, flags, k + 1)

\* the value the matcher returns, but for the log: the four buckets and the
\* two gold views
ReturnValue ==
    [mand_matched |-> mand_matched,
     opt_matched |-> opt_matched,
     mand_un |-> mand_un,
     opt_un |-> opt_un,
     remaining_gold_man |-> heap[remaining_gold_man],
     remaining_gold_all |-> heap[remaining_gold_all]]

InitTwoRuns ==
    /\ tr_mode \in {"same", "mandatory"}
    /\ tr_first = NoRun
    /\ caller \in {"run_experiment", "evaluation_experiment"}
    /\ round = 0
    /\ pc = "idle"
    /\ gold_standard = "gold"
    /\ silver_standard = "silver"
    /\ \E gold \in SUBSET (IF caller = "run_experiment" THEN ClassItems ELSE AssocItems),
          silver \in SUBSET (IF caller = "run_experiment" THEN ClassItems ELSE AssocSilverItems) :
          heap = [r \in Refs |-> IF r = "gold" THEN gold
                                 ELSE IF r = "silver" THEN silver ELSE {}]
    /\ synonym_map \in SynonymMaps
    /\ words = <<>>
    /\ is_optional = <<>>
    /\ remaining_gold_all = "all"
    /\ remaining_gold_man = "man"
    /\ remaining_silv = "silv"
    /\ mand_matched = <<>>
    /\ opt_matched = <<>>
    /\ mand_un = <<>>
    /\ opt_un = <<>>
    /\ log = <<>>
    /\ unmatched_indices = <<>>
    /\ idx = 1
    /\ claimed = <<>>
    /\ NonPunishIdle
    /\ MetricsIdle
    /\ NormalizerIdle
    /\ EntryIdle
    /\ CandidatesIdle
    /\ DedupIdle
    /\ StepsIdle
    /\ RoundsIdle

\* the terms and the pairs of the first call
TwoRunTerms == {sA, sC}
TwoRunPairs == {<<sA, sB>>, <<sC, sD>>}

\* the first call
TR_First ==
    /\ pc = "idle"
    /\ round = 0
    /\ \E sheet \in Sheets(IF caller = "run_experiment" THEN TwoRunTerms
                            ELSE TwoRunPairs) :
          EnterMatcher(sheet[1], sheet[2])

\* the first call returned: its input and its return value are kept
TR_Keep ==
    /\ pc = "returned"
    /\ round = 1
    /\ tr_first = NoRun
    /\ tr_first' = [words |-> words, is_optional |-> is_optional,
                    ret |-> ReturnValue]
    /\ UNCHANGED tr_mode
    /\ UNCHANGED <<matcher_vars, np_vars, cm_vars, nw_vars, ep_vars, gc_vars,
                   da_vars, ps_vars, gr_vars>>

\* the names of the first call are dropped
TR_Drop ==
    /\ tr_first # NoRun
    /\ round = 1
    /\ EndRound

\* the second call
TR_Second ==
    /\ pc = "idle"
    /\ round = 1
    /\ IF tr_mode = "same"
       THEN EnterMatcher(tr_first.words, tr_first.is_optional)
       ELSE EnterMatcher(
                Mandatory(tr_first.words, tr_first.is_optional, 1),
                Mandatory(tr_first.is_optional, tr_first.is_optional, 1))

NextTwoRuns ==
    \/ TR_First
    \/ TR_Keep
    \/ TR_Drop
    \/ TR_Second
    \/ PM_ExactStep
    \/ PM_SynStep
    \/ PM_Return
    \/ PMA_ExactStep
    \/ PMA_SynStep
    \/ PMA_Return

SpecTwoRuns == InitTwoRuns /\ [][NextTwoRuns]_vars

(***************************************************************************)
(* text_utils.deduplicate_associations and the key it compares, for names  *)
(* without asterisks and digits (specification SpecDedup).                 *)
(***************************************************************************)
\* longest list of pairs
MaxAssocs == 3

OPTIONAL == <<"(", "o", "p", "t", "i", "o", "n", "a", "l", ")">>

\* re.search(r"\(opt(?:ional)?\)", s, flags=re.IGNORECASE)
HasOptTag(s) == IsSubstring(OPT, Lower(s)) \/ IsSubstring(OPTIONAL, Lower(s))

\* re.sub(r'^\(Opt(?:ional)?\)\s*', '', left, flags=re.IGNORECASE)
SubLeadingOptTag(left) ==
    IF StartsWith(Lower(left), OPTIONAL)
    THEN LStrip(SubSeq(left, Len(OPTIONAL) + 1, Len(left)))
    ELSE IF StartsWith(Lower(left), OPT)
    THEN LStrip(SubSeq(left, Len(OPT) + 1, Len(left)))
    ELSE left

RECURSIVE SubOptTags(_)
\* re.sub(r"\(opt(?:ional)?\)", "", line, flags=re.IGNORECASE)
SubOptTags(line) ==
    IF line = <<>> THEN <<>>
    ELSE IF StartsWith(Lower(line), OPTIONAL)
    THEN SubOptTags(SubSeq(line, Len(OPTIONAL) + 1, Len(line)))
    ELSE IF StartsWith(Lower(line), OPT)
    THEN SubOptTags(SubSeq(line, Len(OPT) + 1, Len(line)))
    ELSE <<Head(line)>> \o SubOptTags(Tail(line))

\* clean_class_name, for content without asterisks (the two re.sub on
\* asterisks leave it as it is)
clean_class_name(content) ==
    Strip(text_utils_normalize_word("unchecked", PyStr(content)).val)

\* re.sub(r"^(?:\d+\.\s*|\*\s*|\-\s*)", "", line), for a line without
\* digits
SubLeadingBullet(line) ==
    IF line # <<>> /\ Head(line) \in {"*", "-"} THEN LStrip(Tail(line))
    ELSE line

RECURSIVE BeforeSpacedDash(_)
\* line.split(' - ', 1)[0]
BeforeSpacedDash(line) ==
    IF line = <<>> THEN <<>>
    ELSE IF StartsWith(line, <<" ", "-", " ">>) THEN <<>>
    ELSE <<Head(line)>> \o BeforeSpacedDash(Tail(line))

\* clean_association_line(line), force_optional left False
clean_association_line(line) ==
    LET line1 == SubLeadingBullet(line)
        is_opt == HasOptTag(line1)
        line2 == Strip(SubOptTags(line1))
        core == BeforeSpacedDash(line2)
        segs == Split(core, "-")
        parts == [k \in DOMAIN segs |->
                     text_utils_normalize_word("unchecked",
                                               PyStr(Strip(segs[k]))).val]
        cleaned == IF Len(parts) >= 2
                   THEN parts[1] \o <<"-">> \o parts[Len(parts)]
                   ELSE core
    IN IF is_opt THEN OPTIONAL \o <<" ">> \o Strip(cleaned)
       ELSE Strip(cleaned)

\* the characters of the names, in the order of their code points
CodePoints ==
    <<" ", "(", ")", "*", "-", ".", "/">> \o UpperCase \o <<"_">> \o LowerCase
CodePoint(ch) == CHOOSE n \in DOMAIN CodePoints : CodePoints[n] = ch

RECURSIVE StrLess(_, _)
\* x < y for strings
StrLess(x, y) ==
    IF y = <<>> THEN FALSE
    ELSE IF x = <<>> THEN TRUE
    ELSE IF Head(x) = Head(y) THEN StrLess(Tail(x), Tail(y))
    ELSE CodePoint(Head(x)) < CodePoint(Head(y))

\* normalize_assoc: '-'.join(sorted(s.lower().strip() for s in cleaned))
normalize_assoc(assoc) ==
    LET left == SubLeadingOptTag(assoc[1])
        l == Strip(Lower(clean_class_name(left)))
        r == Strip(Lower(clean_association_line(assoc[2])))
    IN IF StrLess(r, l) THEN r \o <<"-">> \o l ELSE l \o <<"-">> \o r

\* any(re.search(r"\(opt(?:ional)?\)", s, flags=re.IGNORECASE) for s in a)
IsOptionalAssoc(a) == HasOptTag(a[1]) \/ HasOptTag(a[2])

\* list.remove(x) for an x that is in the list: the first occurrence goes
RemoveFirst(list, x) ==
    LET n == CHOOSE k \in DOMAIN list :
                 list[k] = x /\ \A j \in 1..(k - 1) : list[j] # x
    IN SubSeq(list, 1, n - 1) \o SubSeq(list, n + 1, Len(list))

\* seen[key], for a key in seen
SeenIndex(seen, key) ==
    seen[CHOOSE k \in DOMAIN seen : seen[k][1] = key][2]

sAs == <<"a", "s">>
sOptA == <<"(", "O", "p", "t", ")", " ", "a">>

\* names of a pair: singular, plural, tagged as parse_association_line tags
AssocNames == {sA, sB, sAs, sOptA}

InitDedup ==
    /\ da_pc = "loop"
    /\ da_assocs \in SeqsUpTo({<<x, y>> : x \in AssocNames, y \in AssocNames},
                              MaxAssocs)
    /\ da_i = 1
    /\ da_seen = <<>>
    /\ da_out = <<>>
    /\ da_mandatory = <<>>
    /\ da_optional = <<>>
    /\ MatcherIdle
    /\ NonPunishIdle
    /\ MetricsIdle
    /\ NormalizerIdle
    /\ EntryIdle
    /\ CandidatesIdle
    /\ TwoRunsIdle
    /\ StepsIdle
    /\ RoundsIdle

DedupFrame ==
    /\ UNCHANGED da_assocs
    /\ UNCHANGED <<matcher_vars, np_vars, cm_vars, nw_vars, ep_vars, gc_vars,
                   tr_vars, ps_vars, gr_vars>>

\* the entry of out that stands for a key whose later version a arrives
Preferred(existing, a) ==
    IF IsOptionalAssoc(existing) /\ ~IsOptionalAssoc(a) THEN a ELSE existing

\* one iteration of `for a in assocs`
DA_Step ==
    /\ da_pc = "loop"
    /\ da_i <= Len(da_assocs)
    /\ LET a == da_assocs[da_i]
           key == normalize_assoc(a)
           a_is_optional == IsOptionalAssoc(a)
       IN IF \A k \in DOMAIN da_seen : da_seen[k][1] # key
          THEN /\ da_seen' = DictSet(da_seen, key, Len(da_out))
               /\ da_out' = Append(da_out, a)
               /\ da_optional' = IF a_is_optional THEN Append(da_optional, a)
                                 ELSE da_optional
               /\ da_mandatory' = IF a_is_optional THEN da_mandatory
                                  ELSE Append(da_mandatory, a)
          ELSE LET existing_index == SeenIndex(da_seen, key)
                   existing == da_out[existing_index + 1]
                   kept == Preferred(existing, a)
               IN /\ da_out' = [da_out EXCEPT ![existing_index + 1] = kept]
                  /\ da_optional' =
                        IF kept # existing /\ existing \in Range(da_optional)
                        THEN RemoveFirst(da_optional, existing)
                        ELSE da_optional
                  /\ da_mandatory' = IF kept # existing
                                     THEN Append(da_mandatory, a)
                                     ELSE da_mandatory
                  /\ UNCHANGED da_seen
    /\ da_i' = da_i + 1
    /\ UNCHANGED da_pc
    /\ DedupFrame

\* return out
DA_Return ==
    /\ da_pc = "loop"
    /\ da_i > Len(da_assocs)
    /\ da_pc' = "returned"
    /\ UNCHANGED <<da_i, da_seen, da_out, da_mandatory, da_optional>>
    /\ DedupFrame

NextDedup ==
    \/ DA_Step
    \/ DA_Return

SpecDedup == InitDedup /\ [][NextDedup]_vars

(***************************************************************************)
(* generation_utils.process_steps: one chat completion per step; a call    *)
(* either answers with an assistant message or raises (specification       *)
(* SpecSteps).                                                             *)
(***************************************************************************)
\* most steps of a prompt chain
MaxSteps == 3

\* contents of the answers of the model
Replies == {"reply1", "reply2", "reply3"}

\* the instruction lists: a system prompt and the prompts of steps 2, 3, ...
InstructionLists ==
    {[k \in 1..n |-> IF k = 1 THEN "system prompt" ELSE "prompt"] :
        n \in 1..MaxSteps}

Message(role, content) == [role |-> role, content |-> content]

\* the first user prompt
FirstPrompt(task) ==
    IF task = "class" THEN <<"user_text">>
    ELSE <<"user_text", "identified_classes">>

InitSteps ==
    /\ ps_pc = "step1"
    /\ ps_instructions \in InstructionLists
    /\ ps_task \in {"class", "association"}
    /\ ps_step = 1
    /\ ps_conversation = <<>>
    /\ ps_responses = <<>>
    /\ ps_calls = <<>>
    /\ MatcherIdle
    /\ NonPunishIdle
    /\ MetricsIdle
    /\ NormalizerIdle
    /\ EntryIdle
    /\ CandidatesIdle
    /\ TwoRunsIdle
    /\ DedupIdle
    /\ RoundsIdle

StepsFrame ==
    /\ UNCHANGED <<ps_instructions, ps_task>>
    /\ UNCHANGED <<matcher_vars, np_vars, cm_vars, nw_vars, ep_vars, gc_vars,
                   tr_vars, da_vars, gr_vars>>

\* the position after a call of the loop raised at `step`: break
AfterFailure_continue(step) ==
    IF step < Len(ps_instructions) THEN "loop" ELSE "returned"
AfterFailure(step) == "returned"

\* client.chat.completions.create on `conversation` at `step`: it raises, or
\* answers with a message of role assistant, which goes to the end of the
\* conversation, the response to the end of responses
CallModel(step, conversation, on_failure, on_success) ==
    \/ /\ ps_calls' = Append(ps_calls, [step |-> step, ok |-> FALSE,
                                         messages |-> conversation])
       /\ ps_conversation' = conversation
       /\ ps_pc' = on_failure
       /\ UNCHANGED ps_responses
    \/ \E content \in Replies :
          LET response == [step |-> step,
                           message |-> Message("assistant", content)]
          IN /\ ps_calls' = Append(ps_calls, [step |-> step, ok |-> TRUE,
                                               messages |-> conversation])
             /\ ps_conversation' = Append(conversation, response.message)
             /\ ps_responses' = Append(ps_responses, response)
             /\ ps_pc' = on_success

\* the system prompt, the first user prompt and the call of step 1; a
\* failure returns at once
PS_Step1 ==
    /\ ps_pc = "step1"
    /\ CallModel(1,
                 <<Message("system", ps_instructions[1]),
                   Message("user", FirstPrompt(ps_task))>>,
                 "returned", "loop")
    /\ ps_step' = 2
    /\ StepsFrame

\* one iteration of the loop over instructions[1:], steps 2, 3, ...
PS_Step ==
    /\ ps_pc = "loop"
    /\ ps_step <= Len(ps_instructions)
    /\ CallModel(ps_step,
                 Append(ps_conversation,
                        Message("user", ps_instructions[ps_step])),
                 AfterFailure(ps_step), "loop")
    /\ ps_step' = ps_step + 1
    /\ StepsFrame

\* the loop is over: return conversation, responses
PS_Return ==
    /\ ps_pc = "loop"
    /\ ps_step > Len(ps_instructions)
    /\ ps_pc' = "returned"
    /\ UNCHANGED <<ps_step, ps_conversation, ps_responses, ps_calls>>
    /\ StepsFrame

NextSteps ==
    \/ PS_Step1
    \/ PS_Step
    \/ PS_Return

SpecSteps == InitSteps /\ [][NextSteps]_vars

(***************************************************************************)
(* The generation runs of run_class_generation.main and                    *)
(* run_association_generation.main on one output directory: a run creates  *)
(* the directory, takes round_num from get_next_round_number and writes    *)
(* R<round_num + r>.txt for each round r; between two runs round files may *)
(* be deleted and another .txt file may appear (specification SpecRounds). *)
(***************************************************************************)
\* most rounds of one run (--rounds)
MaxRunRounds == 2

\* the largest round number a run may write
MaxFiles == 4

\* most runs on the directory
MaxRuns == 3

\* the file f"R{n}.txt"
RoundFile(n) == [stem |-> "R", num |-> n]

\* a .txt file of the directory that no run wrote
OtherFile == [stem |-> "notes", num |-> 0]

AllFiles == {RoundFile(n) : n \in 1..MaxFiles} \cup {OtherFile}

\* the number of .txt files plus one; 1 when the directory is missing
get_next_round_number(exists, files) ==
    IF ~exists THEN 1 ELSE Cardinality(files) + 1

InitRounds ==
    /\ gr_pc = "idle"
    /\ gr_exists = FALSE
    /\ gr_files = {}
    /\ gr_rounds = 0
    /\ gr_round_num = 0
    /\ gr_r = 0
    /\ gr_run = 0
    /\ gr_author = [f \in AllFiles |-> 0]
    /\ gr_overwritten = {}
    /\ MatcherIdle
    /\ NonPunishIdle
    /\ MetricsIdle
    /\ NormalizerIdle
    /\ EntryIdle
    /\ CandidatesIdle
    /\ TwoRunsIdle
    /\ DedupIdle
    /\ StepsIdle

RoundsFrame ==
    UNCHANGED <<matcher_vars, np_vars, cm_vars, nw_vars, ep_vars, gc_vars,
                tr_vars, da_vars, ps_vars>>

\* main up to the loop: output_dir.mkdir(parents=True, exist_ok=True) and
\* round_num = get_next_round_number(output_dir)
GR_Start ==
    /\ gr_pc = "idle"
    /\ gr_run < MaxRuns
    /\ \E rounds \in 1..MaxRunRounds :
         LET round_num == get_next_round_number(TRUE, gr_files)
         IN  /\ round_num + rounds - 1 <= MaxFiles
             /\ gr_rounds' = rounds
             /\ gr_round_num' = round_num
    /\ gr_exists' = TRUE
    /\ gr_run' = gr_run + 1
    /\ gr_r' = 0
    /\ gr_pc' = "writing"
    /\ UNCHANGED <<gr_files, gr_author, gr_overwritten>>
    /\ RoundsFrame

\* one round of the loop: open(output_dir / f"R{round_num + r}.txt", "w")
\* creates the file or truncates the one that is there
GR_Write ==
    /\ gr_pc = "writing"
    /\ gr_r < gr_rounds
    /\ LET f == RoundFile(gr_round_num + gr_r)
       IN  /\ gr_files' = gr_files \cup {f}
           /\ gr_author' = [gr_author EXCEPT ![f] = gr_run]
           /\ gr_overwritten' =
                  IF f \in gr_files /\ gr_author[f] \notin {0, gr_run}
                  THEN gr_overwritten \cup {f}
                  ELSE gr_overwritten
    /\ gr_r' = gr_r + 1
    /\ UNCHANGED <<gr_pc, gr_exists, gr_rounds, gr_round_num, gr_run>>
    /\ RoundsFrame

\* the end of the loop and of the run
GR_Finish ==
    /\ gr_pc = "writing"
    /\ gr_r = gr_rounds
    /\ gr_pc' = "idle"
    /\ UNCHANGED <<gr_exists, gr_files, gr_rounds, gr_round_num, gr_r, gr_run,
                   gr_author, gr_overwritten>>
    /\ RoundsFrame

\* between two runs somebody deletes a round file
GR_Delete ==
    /\ gr_pc = "idle"
    /\ \E f \in gr_files \ {OtherFile} :
         /\ gr_files' = gr_files \ {f}
         /\ gr_author' = [gr_author EXCEPT ![f] = 0]
    /\ UNCHANGED <<gr_pc, gr_exists, gr_rounds, gr_round_num, gr_r, gr_run,
                   gr_overwritten>>
    /\ RoundsFrame

\* between two runs somebody puts another .txt file into the directory
GR_Other ==
    /\ gr_pc = "idle"
    /\ gr_exists
    /\ OtherFile \notin gr_files
    /\ gr_files' = gr_files \cup {OtherFile}
    /\ UNCHANGED <<gr_pc, gr_exists, gr_rounds, gr_round_num, gr_r, gr_run,
                   gr_author, gr_overwritten>>
    /\ RoundsFrame

NextRounds ==
    \/ GR_Start
    \/ GR_Write
    \/ GR_Finish
    \/ GR_Delete
    \/ GR_Other

SpecRounds == InitRounds /\ [][NextRounds]_vars

(***************************************************************************)
(* Properties of the two matchers (specification Spec).                    *)
(***************************************************************************)
\* how often e occurs in a list
Count(list, e) == Cardinality({k \in DOMAIN list : list[k] = e})

\* the entry a silver match of term w leaves in a matched bucket
SilverEntry(w) ==
    IF caller = "run_experiment" THEN SIL \o w ELSE SIL \o Repr(w)

\* an entry of a matched bucket that carries the silver tag
HasSilverTag(e) == StartsWith(e, SIL)

\* the records of the items consumed by term i
ClaimsOf(i) == {k \in DOMAIN claimed : claimed[k].i = i}

\* the records of the consumptions of item r of tier t
ClaimsOn(t, r) ==
    {k \in DOMAIN claimed : claimed[k].tier = t /\ claimed[k].item = r}

\* C1: when a matcher returns, the four buckets together hold as many
\* entries as there are input terms, and every input term occurs in the
\* buckets of its flag (matched as it is or with the silver tag, or
\* unmatched) exactly as often as it occurs in the input with that flag.
C1_PartitionComplete ==
    pc = "returned" =>
        /\ Len(mand_matched) + Len(opt_matched) + Len(mand_un) + Len(opt_un)
               = Len(words)
        /\ \A w \in Range(words), b \in BOOLEAN :
              LET matched == IF b THEN opt_matched ELSE mand_matched
                  unmatched == IF b THEN opt_un ELSE mand_un
              IN Cardinality({i \in DOMAIN words :
                                  words[i] = w /\ is_optional[i] = b})
                   = Count(matched, w) + Count(matched, SilverEntry(w))
                       + Count(unmatched, w)

C1_Witness ==
    /\ pc = "returned"
    /\ Len(words) = 2
    /\ Len(mand_matched) = 1
    /\ Len(opt_un) = 1

\* C2: within one call no reference item (an item of the gold standard, or
\* an item of the silver standard) is consumed twice, in either pass; every
\* consumed item is an item of its standard and is out of the working set.
C2_NoDoubleConsumption ==
    /\ \A k1, k2 \in DOMAIN claimed :
          k1 # k2 => ~(/\ claimed[k1].tier = claimed[k2].tier
                       /\ claimed[k1].item = claimed[k2].item)
    /\ \A k \in DOMAIN claimed :
          IF claimed[k].tier = "gold"
          THEN /\ claimed[k].item \in heap[gold_standard]
               /\ claimed[k].item \notin heap[remaining_gold_all]
          ELSE /\ claimed[k].item \in heap[silver_standard]
               /\ claimed[k].item \notin heap[remaining_silv]

\* an item consumed in the exact pass that a term of the synonym pass has
\* among its candidates and cannot get
C2_Witness ==
    /\ pc = "returned"
    /\ caller = "run_experiment"
    /\ Len(claimed) = 1
    /\ claimed[1].pass = "exact"
    /\ Len(unmatched_indices) = 1
    /\ claimed[1].item \in generate_candidates(words[unmatched_indices[1]],
                                               synonym_map)
    /\ Len(mand_un) = 1

\* C3: when perform_matching returns, every gold item is either in the full
\* view and consumed by no term, or out of it and consumed by exactly one
\* term; the gold consumptions are the matched entries without the silver
\* tag, so the full view holds |gold| minus that many items, and its size is
\* the FN of the metrics of the round.
C3_GoldConsumedOrRemaining ==
    (pc = "returned" /\ caller = "run_experiment") =>
        LET gold == heap[gold_standard]
            remaining == heap[remaining_gold_all]
            matched == mand_matched \o opt_matched
            untagged == {k \in DOMAIN matched : ~HasSilverTag(matched[k])}
        IN /\ remaining \subseteq gold
           /\ \A g \in gold :
                 Cardinality(ClaimsOn("gold", g))
                     = IF g \in remaining THEN 0 ELSE 1
           /\ Cardinality(untagged)
                  = Cardinality({k \in DOMAIN claimed : claimed[k].tier = "gold"})
           /\ Cardinality(remaining) = Cardinality(gold) - Cardinality(untagged)
           /\ compute_metrics(matched, mand_un \o opt_un, remaining,
                              round - 1).FN
                  = Cardinality(gold) - Cardinality(untagged)

C3_Witness ==
    /\ pc = "returned"
    /\ caller = "run_experiment"
    /\ \E k \in DOMAIN claimed : claimed[k].tier = "gold"
    /\ \E k \in DOMAIN claimed : claimed[k].tier = "silver"
    /\ heap[remaining_gold_all] # {}

\* the strings by which term i can claim an item in the exact pass
ExactReach(i) == Range(Variants(words[i]))

\* the strings by which term i can claim an item in the synonym pass
SynReach(i) ==
    UNION {generate_candidates(v, synonym_map) : v \in Range(Variants(words[i]))}

\* the items of the standards
ReferenceItems == heap[gold_standard] \cup heap[silver_standard]

\* C4 as stated, in the cases where each of the two terms can reach one
\* reference item only: when two terms of the input can both claim the same
\* reference item, by exact match or through a synonym candidate, the
\* earlier term has claimed it when perform_matching returns and the later
\* term has not.
C4_FirstTermClaims ==
    (pc = "returned" /\ caller = "run_experiment") =>
        \A i, j \in DOMAIN words, r \in ReferenceItems :
            (/\ i < j
             /\ SynReach(i) \cap ReferenceItems = {r}
             /\ SynReach(j) \cap ReferenceItems = {r}
             /\ ~(r \in heap[gold_standard] /\ r \in heap[silver_standard]))
            => /\ \E k \in ClaimsOf(i) : claimed[k].item = r
               /\ ~\E k \in ClaimsOf(j) : claimed[k].item = r

\* C4, amended: input order decides within a pass.  When a term claims an
\* item in the exact pass, every earlier term that has the item among its
\* slash-variants has claimed an item in the exact pass; when a term claims
\* an item in the synonym pass, every earlier term of the synonym pass that
\* has the item among its candidates has claimed an item in the synonym
\* pass.
C4_FirstTermClaimsInPass ==
    caller = "run_experiment" =>
        \A k \in DOMAIN claimed :
            \A i \in 1..(claimed[k].i - 1) :
                IF claimed[k].pass = "exact"
                THEN claimed[k].item \in ExactReach(i)
                        => \E k2 \in ClaimsOf(i) : claimed[k2].pass = "exact"
                ELSE (/\ i \in Range(unmatched_indices)
                      /\ claimed[k].item \in SynReach(i))
                        => \E k2 \in ClaimsOf(i) : claimed[k2].pass = "syn"

\* two terms of the synonym pass with a common candidate: both claim, the
\* earlier one first
C4_Witness ==
    /\ pc = "returned"
    /\ caller = "run_experiment"
    /\ Len(unmatched_indices) = 2
    /\ Len(claimed) = 2
    /\ claimed[1].i = 1 /\ claimed[1].pass = "syn"
    /\ claimed[2].i = 2 /\ claimed[2].pass = "syn"
    /\ claimed[2].item \in SynReach(1)

\* C5: no step changes the gold set, the silver set or the synonym map of
\* the dataset, and every round starts its three working sets as full
\* copies of the standards, so a round is matched as it would be alone.
C5_NoCrossRoundLeakage ==
    [][/\ gold_standard' = gold_standard
       /\ silver_standard' = silver_standard
       /\ heap'[gold_standard] = heap[gold_standard]
       /\ heap'[silver_standard] = heap[silver_standard]
       /\ synonym_map' = synonym_map
       /\ round' = round + 1 =>
             /\ heap'[remaining_gold_all'] = heap[gold_standard]
             /\ heap'[remaining_gold_man'] = heap[gold_standard]
             /\ heap'[remaining_silv'] = heap[silver_standard]]_vars

\* a second round that consumes the whole gold standard
C5_Witness ==
    /\ round = 2
    /\ pc = "returned"
    /\ Cardinality(heap[gold_standard]) = 2
    /\ heap[remaining_gold_all] = {}
    /\ Len(claimed) = 2

\* C6: no call of a matcher raises, and every loop index is in range; the
\* only removal the code does not guard by a membership test, the one from
\* the mandatory view, always finds its item.
C6_MatchersTotal ==
    /\ pc # "raised"
    /\ pc = "exact" => idx \in DOMAIN words
    /\ pc = "syn" => /\ idx \in DOMAIN unmatched_indices
                     /\ unmatched_indices[idx] \in DOMAIN words
    /\ heap[remaining_gold_all] \subseteq heap[remaining_gold_man]

\* a mandatory term with slash-variants consumed a gold item, beside an
\* empty term
C6_Witness ==
    /\ pc = "returned"
    /\ caller = "run_experiment"
    /\ words = <<sAB, sEmpty>>
    /\ is_optional = <<FALSE, FALSE>>
    /\ Len(claimed) = 1
    /\ claimed[1].tier = "gold"

\* the last record of the history
LastClaim(cl) == cl[Len(cl)]

\* C11: a step of a matcher that consumes a silver item (in the exact or
\* in the synonym pass), and only such a step, changes the working silver
\* set; it removes exactly the consumed item from it, leaves both gold
\* views and the unmatched buckets as they are, and appends the term with
\* the silver tag to the matched bucket of the term's flag; so the TP of
\* the round grows by 1 and its FN does not change.
C11_SilverMatchEffect ==
    [][(/\ pc \in {"exact", "syn"}
        /\ \/ heap'[remaining_silv] # heap[remaining_silv]
           \/ /\ Len(claimed') = Len(claimed) + 1
              /\ LastClaim(claimed').tier = "silver")
       => LET rec == LastClaim(claimed')
              w == words[rec.i]
              opt == is_optional[rec.i]
              before == compute_metrics(mand_matched \o opt_matched,
                            mand_un \o opt_un, heap[remaining_gold_all],
                            round - 1)
              after == compute_metrics(mand_matched' \o opt_matched',
                            mand_un' \o opt_un', heap'[remaining_gold_all],
                            round - 1)
          IN /\ Len(claimed') = Len(claimed) + 1
             /\ rec.tier = "silver"
             /\ rec.item \in heap[remaining_silv]
             /\ heap'[remaining_silv] = heap[remaining_silv] \ {rec.item}
             /\ heap'[remaining_gold_all] = heap[remaining_gold_all]
             /\ heap'[remaining_gold_man] = heap[remaining_gold_man]
             /\ IF opt
                THEN /\ opt_matched' = Append(opt_matched, SilverEntry(w))
                     /\ mand_matched' = mand_matched
                ELSE /\ mand_matched' = Append(mand_matched, SilverEntry(w))
                     /\ opt_matched' = opt_matched
             /\ mand_un' = mand_un
             /\ opt_un' = opt_un
             /\ after.TP = before.TP + 1
             /\ after.FN = before.FN]_vars

\* an optional term matched against silver in the synonym pass while a gold
\* item stays in the full view
C11_Witness ==
    /\ pc = "returned"
    /\ Len(claimed) = 1
    /\ claimed[1].tier = "silver"
    /\ claimed[1].pass = "syn"
    /\ is_optional[claimed[1].i]
    /\ opt_matched = <<SilverEntry(words[claimed[1].i])>>
    /\ heap[remaining_gold_all] # {}

\* the gold consumptions that precede the visit of term i in the synonym
\* pass: those of the exact pass and those of earlier terms
GoldClaimsBeforeSyn(i) ==
    {k \in DOMAIN claimed :
        /\ claimed[k].tier = "gold"
        /\ claimed[k].pass = "exact" \/ claimed[k].i < i}

\* the silver consumptions that precede the visit of term i in the synonym
\* pass
SilverClaimsBeforeSyn(i) ==
    {k \in DOMAIN claimed :
        /\ claimed[k].tier = "silver"
        /\ claimed[k].pass = "exact" \/ claimed[k].i < i}

\* the full view as term i finds it in the synonym pass
GoldAtSynVisit(i) ==
    heap[gold_standard] \ {claimed[k].item : k \in GoldClaimsBeforeSyn(i)}

\* the working silver set as term i finds it in the synonym pass
SilverAtSynVisit(i) ==
    heap[silver_standard] \ {claimed[k].item : k \in SilverClaimsBeforeSyn(i)}

\* C12 as stated: when perform_matching returns, every term left unmatched
\* by the exact pass that had a synonym candidate in the full view when the
\* synonym pass visited it has consumed such a candidate, which is out of
\* the full view, and is recorded as it is in the matched bucket of its
\* flag; every such term without a candidate in gold or silver is in the
\* unmatched bucket of its flag and has consumed nothing.
C12_SynonymFallback ==
    (pc = "returned" /\ caller = "run_experiment") =>
        \A i \in Range(unmatched_indices) :
            LET w == words[i]
                matched == IF is_optional[i] THEN opt_matched ELSE mand_matched
                unmatched == IF is_optional[i] THEN opt_un ELSE mand_un
                in_gold == SynReach(i) \cap GoldAtSynVisit(i)
                in_silv == SynReach(i) \cap SilverAtSynVisit(i)
            IN /\ in_gold # {} =>
                     /\ \E k \in ClaimsOf(i) :
                           /\ claimed[k].tier = "gold"
                           /\ claimed[k].item \in in_gold
                           /\ claimed[k].item \notin heap[remaining_gold_all]
                     /\ Count(matched, w) >= 1
               /\ (in_gold = {} /\ in_silv = {}) =>
                     /\ ClaimsOf(i) = {}
                     /\ Count(unmatched, w) >= 1

\* the full view and the working silver set as term i finds them in the
\* exact pass
GoldAtExactVisit(i) ==
    heap[gold_standard] \
        {claimed[k].item : k \in {n \in DOMAIN claimed :
            /\ claimed[n].tier = "gold"
            /\ claimed[n].pass = "exact"
            /\ claimed[n].i < i}}
SilverAtExactVisit(i) ==
    heap[silver_standard] \
        {claimed[k].item : k \in {n \in DOMAIN claimed :
            /\ claimed[n].tier = "silver"
            /\ claimed[n].pass = "exact"
            /\ claimed[n].i < i}}

\* the reference items pair (X, Y) can consume in the exact pass and in the
\* synonym pass
PairExactReach(X, Y) == {{X, Y}}
PairSynReach(X, Y) == CandidatePairs(X, Y, synonym_map)

\* the outcome of the visits of pair i is one that a pair of endpoints
\* (X, Y) may have in its place: matched or not in the exact pass, then
\* gold before silver before unmatched in the synonym pass, consuming an
\* item that (X, Y) reaches
OutcomeOf(i, X, Y) ==
    LET w == words[i]
        matched == IF is_optional[i] THEN opt_matched ELSE mand_matched
        unmatched == IF is_optional[i] THEN opt_un ELSE mand_un
        exact_gold == PairExactReach(X, Y) \cap GoldAtExactVisit(i)
        exact_silv == PairExactReach(X, Y) \cap SilverAtExactVisit(i)
        syn_gold == PairSynReach(X, Y) \cap GoldAtSynVisit(i)
        syn_silv == PairSynReach(X, Y) \cap SilverAtSynVisit(i)
        Claims(t, p, items) ==
            /\ Cardinality(ClaimsOf(i)) = 1
            /\ \E k \in ClaimsOf(i) :
                  /\ claimed[k].tier = t
                  /\ claimed[k].pass = p
                  /\ claimed[k].item \in items
            /\ Count(matched, IF t = "gold" THEN w ELSE SilverEntry(w)) >= 1
    IN IF exact_gold # {} THEN Claims("gold", "exact", exact_gold)
       ELSE IF exact_silv # {} THEN Claims("silver", "exact", exact_silv)
       ELSE /\ i \in Range(unmatched_indices)
            /\ IF syn_gold # {} THEN Claims("gold", "syn", syn_gold)
               ELSE IF syn_silv # {} THEN Claims("silver", "syn", syn_silv)
               ELSE ClaimsOf(i) = {} /\ Count(unmatched, w) >= 1

C18_GoldBeforeSilverExact ==
    (pc = "returned" /\ caller = "run_experiment") =>
        \A i \in DOMAIN words :
            LET in_gold == ExactReach(i) \cap GoldAtExactVisit(i)
                matched == IF is_optional[i] THEN opt_matched ELSE mand_matched
            IN /\ in_gold # {} =>
                     /\ \E k \in ClaimsOf(i) :
                           /\ claimed[k].tier = "gold"
                           /\ claimed[k].pass = "exact"
                           /\ claimed[k].item \in in_gold
                     /\ Count(matched, words[i]) >= 1
               /\ \A k \in ClaimsOf(i) :
                     (claimed[k].tier = "silver" /\ claimed[k].pass = "exact")
                         => in_gold = {}

\* C19 as stated: when perform_matching returns, every term of the
\* synonym pass that had a candidate (of any of its slash-variants) in the
\* full view when it was visited has consumed a gold item and is recorded
\* without the silver tag; a term matched against silver in the synonym
\* pass had no candidate in the full view.
C19_GoldBeforeSilverSyn ==
    (pc = "returned" /\ caller = "run_experiment") =>
        \A i \in Range(unmatched_indices) :
            LET in_gold == SynReach(i) \cap GoldAtSynVisit(i)
                matched == IF is_optional[i] THEN opt_matched ELSE mand_matched
            IN /\ in_gold # {} =>
                     /\ \E k \in ClaimsOf(i) :
                           claimed[k].tier = "gold" /\ claimed[k].pass = "syn"
                     /\ Count(matched, SilverEntry(words[i])) = 0
               /\ \A k \in ClaimsOf(i) :
                     (claimed[k].tier = "silver" /\ claimed[k].pass = "syn")
                         => in_gold = {}

\* the gold items consumed so far by the terms with optional flag in `flags`
GoldConsumedBy(flags) ==
    {claimed[k].item : k \in {n \in DOMAIN claimed :
        /\ claimed[n].tier = "gold"
        /\ is_optional[claimed[n].i] \in flags}}

\* C21: at every point of a call of a matcher and on its return, the
\* mandatory view is the gold set minus the items consumed by mandatory
\* terms, and the full view is the gold set minus the items consumed by any
\* term: a gold match by a mandatory term shrinks both views, one by an
\* optional term shrinks the full view only.
C21_TwoViewsShrinkDifferently ==
    pc \in {"exact", "syn", "return", "returned"} =>
        /\ heap[remaining_gold_man] =
               heap[gold_standard] \ GoldConsumedBy({FALSE})
        /\ heap[remaining_gold_all] =
               heap[gold_standard] \ GoldConsumedBy({FALSE, TRUE})

\* a call returned in which an optional term consumed a gold item, which
\* is still in the mandatory view, and a mandatory term consumed another
C21_Witness ==
    /\ pc = "returned"
    /\ GoldConsumedBy({TRUE}) # {}
    /\ GoldConsumedBy({FALSE}) # {}
    /\ GoldConsumedBy({TRUE}) \subseteq heap[remaining_gold_man]
    /\ GoldConsumedBy({TRUE}) \cap heap[remaining_gold_all] = {}
    /\ GoldConsumedBy({FALSE}) \cap heap[remaining_gold_man] = {}

\* the unordered pairs of a candidate of X with a candidate of Y
CrossCandidates(X, Y) ==
    {{cx, cy} : cx \in generate_candidates(X, synonym_map),
                cy \in generate_candidates(Y, synonym_map)}

\* C22: when perform_matching_associations returns, a pair left unmatched
\* by the exact pass has consumed a gold item in the synonym pass exactly
\* when some combination of a candidate of X with a candidate of Y was in
\* the full view at its visit (and the item is such a combination); it has
\* consumed a silver item exactly when no combination was in the full view
\* and some combination was in the working silver set; and it has consumed
\* nothing and is in an unmatched bucket exactly when no combination was in
\* either set.
C22_PairSynonymPass ==
    (pc = "returned" /\ caller = "evaluation_experiment") =>
        \A i \in Range(unmatched_indices) :
            LET w == words[i]
                unmatched == IF is_optional[i] THEN opt_un ELSE mand_un
                combos == CrossCandidates(w[1], w[2])
                in_gold == combos \cap GoldAtSynVisit(i)
                in_silv == combos \cap SilverAtSynVisit(i)
                Took(t, items) ==
                    \E k \in ClaimsOf(i) :
                        /\ claimed[k].pass = "syn"
                        /\ claimed[k].tier = t
                        /\ claimed[k].item \in items
            IN /\ Cardinality(ClaimsOf(i)) <= 1
               /\ Took("gold", in_gold) <=> in_gold # {}
               /\ Took("silver", in_silv) <=> (in_gold = {} /\ in_silv # {})
               /\ ClaimsOf(i) = {} <=> (in_gold = {} /\ in_silv = {})
               /\ ClaimsOf(i) = {} => Count(unmatched, w) >= 1

\* a pair none of whose endpoints is in a reference pair was matched to
\* gold through a synonym on each side, while a combination of its
\* candidates was in silver too
C22_Witness ==
    /\ pc = "returned"
    /\ caller = "evaluation_experiment"
    /\ \E k \in DOMAIN claimed :
          LET w == words[claimed[k].i]
          IN /\ claimed[k].pass = "syn"
             /\ claimed[k].tier = "gold"
             /\ claimed[k].item \cap {w[1], w[2]} = {}
             /\ CrossCandidates(w[1], w[2])
                    \cap SilverAtSynVisit(claimed[k].i) # {}

\* C25: at every point of a call of a matcher and on its return, the full
\* view is a subset of the mandatory view, which is a subset of the gold
\* set of the call, and the working silver set is a subset of the silver
\* set of the call; so the full view never has more items left (FN) than
\* the mandatory view.
C25_ViewsNested ==
    pc \in {"exact", "syn", "return", "returned"} =>
        /\ heap[remaining_gold_all] \subseteq heap[remaining_gold_man]
        /\ heap[remaining_gold_man] \subseteq heap[gold_standard]
        /\ heap[remaining_silv] \subseteq heap[silver_standard]
        /\ Cardinality(heap[remaining_gold_all])
              <= Cardinality(heap[remaining_gold_man])

\* a call returned with the three gold sets all different: an optional and
\* a mandatory term each consumed a gold item
C25_Witness ==
    /\ pc = "returned"
    /\ heap[remaining_gold_all] # heap[remaining_gold_man]
    /\ heap[remaining_gold_man] # heap[gold_standard]
    /\ heap[silver_standard] # {}

\* the strings (or the endpoint set) term i is looked up by in the exact
\* pass, in the order of the lookups
ExactLookups(i) ==
    IF caller = "run_experiment" THEN Variants(words[i])
    ELSE <<{words[i][1], words[i][2]}>>

\* the lookups of term i that hit the full view or the working silver set
\* as the exact pass finds them
ExactHits(i) ==
    {j \in DOMAIN ExactLookups(i) :
        ExactLookups(i)[j] \in GoldAtExactVisit(i) \cup SilverAtExactVisit(i)}

\* the exact pass is over before the synonym pass consumes anything, and
\* the synonym pass takes the terms the exact pass left, in input order,
\* from the sets the exact pass left
PassesInOrder ==
    /\ \A k1, k2 \in DOMAIN claimed :
          (claimed[k1].pass = "syn" /\ claimed[k2].pass = "exact") => k2 < k1
    /\ \A k1, k2 \in DOMAIN claimed :
          (k1 < k2 /\ claimed[k1].pass = claimed[k2].pass)
              => claimed[k1].i < claimed[k2].i
    /\ \A n1, n2 \in DOMAIN unmatched_indices :
          n1 < n2 => unmatched_indices[n1] < unmatched_indices[n2]
    /\ Range(unmatched_indices) = {i \in DOMAIN words : ExactHits(i) = {}}
    /\ \A k \in DOMAIN claimed :
          claimed[k].pass = "syn" =>
              /\ claimed[k].i \in Range(unmatched_indices)
              /\ claimed[k].item \in
                     IF claimed[k].tier = "gold"
                     THEN GoldAtSynVisit(claimed[k].i)
                     ELSE SilverAtSynVisit(claimed[k].i)

\* C20 as stated: when a matcher returns, the passes were run in order,
\* and every term has consumed, in the exact pass, every gold item that
\* was in the full view when the exact pass visited the term and equals
\* the term's text or one of its slash-variants, whatever the synonym
\* candidates of earlier terms.
C20_ExactPassConsumesEveryHit ==
    pc = "returned" =>
        /\ PassesInOrder
        /\ \A i \in DOMAIN words :
              \A g \in Range(ExactLookups(i)) \cap GoldAtExactVisit(i) :
                  \E k \in ClaimsOf(i) :
                      /\ claimed[k].pass = "exact"
                      /\ claimed[k].tier = "gold"
                      /\ claimed[k].item = g

\* C20, amended: when a matcher returns, the passes were run in order,
\* and every term with a lookup that hit the full view or the working
\* silver set in the exact pass has consumed exactly one item, in the
\* exact pass: the first of its lookups that hit, from gold if it was in
\* the full view and from silver otherwise, whatever the synonym
\* candidates of earlier terms.
C20_ExactPassBeforeSynonymPass ==
    pc = "returned" =>
        /\ PassesInOrder
        /\ \A i \in DOMAIN words :
              ExactHits(i) # {} =>
                  LET j == CHOOSE n \in ExactHits(i) :
                               \A m \in ExactHits(i) : n <= m
                      g == ExactLookups(i)[j]
                  IN /\ Cardinality(ClaimsOf(i)) = 1
                     /\ \A k \in ClaimsOf(i) :
                           /\ claimed[k].pass = "exact"
                           /\ claimed[k].item = g
                           /\ claimed[k].tier =
                                  IF g \in GoldAtExactVisit(i) THEN "gold"
                                  ELSE "silver"

\* the second term consumed in the exact pass the gold item that the first
\* term, left unmatched, has among its synonym candidates
C20_Witness ==
    /\ pc = "returned"
    /\ caller = "run_experiment"
    /\ Len(words) = 2
    /\ unmatched_indices = <<1>>
    /\ Len(claimed) = 1
    /\ claimed[1].i = 2
    /\ claimed[1].pass = "exact"
    /\ claimed[1].tier = "gold"
    /\ claimed[1].item \in SynReach(1)
    /\ Len(mand_un) + Len(opt_un) = 1

(***************************************************************************)
(* Properties of the non-punishment filter (specification SpecNonPunish).  *)
(***************************************************************************)
\* the rules of the dataset of the call
NPRules == np_mapping[np_dataset]

\* the normalized children of rule k
NPChildren(k) ==
    {normalize_word(NPRules[k][2][j]) : j \in DOMAIN NPRules[k][2]}

\* the matched terms, markers stripped and normalized
NPMatched ==
    {normalize_word(StripMarkers(np_matched[k])) : k \in DOMAIN np_matched}

\* rule k is active: its parent or one of its children is matched
NPActive(k) ==
    \/ normalize_word(NPRules[k][1]) \in NPMatched
    \/ NPChildren(k) \cap NPMatched # {}

\* term t is a child of an active rule
NPDropped(t) ==
    \E k \in DOMAIN NPRules :
        NPActive(k) /\ normalize_word(StripMarkers(t)) \in NPChildren(k)

\* C7: for a dataset with rules the filter returns the unmatched terms, in
\* their order, without the children of active rules; a term that is the
\* child of no rule is kept; the log grows by one line per dropped term,
\* in the order of the dropped terms.
C7_FilterDropsChildrenOfMatched ==
    (/\ np_pc = "done"
     /\ np_dataset \in DOMAIN np_mapping
     /\ np_mapping[np_dataset] # <<>>) =>
        LET dropped == SelectSeq(np_unmatched, NPDropped)
            lines == SubSeq(np_result.log, Len(np_log) + 1,
                            Len(np_result.log))
        IN /\ np_result.unmatched
                  = SelectSeq(np_unmatched, LAMBDA t : ~NPDropped(t))
           /\ \A k \in DOMAIN np_unmatched :
                 (\A r \in DOMAIN NPRules :
                      normalize_word(StripMarkers(np_unmatched[k]))
                          \notin NPChildren(r))
                 => Count(np_result.unmatched, np_unmatched[k])
                        = Count(np_unmatched, np_unmatched[k])
           /\ SubSeq(np_result.log, 1, Len(np_log)) = np_log
           /\ [k \in DOMAIN lines |-> lines[k].item] = dropped

\* the repository's test: the child "medical form" goes, "teacher" stays
C7_Witness ==
    /\ np_pc = "done"
    /\ np_dataset = "camperplus"
    /\ np_unmatched = <<sMF, sT>>
    /\ np_matched = <<sF, sQ>>
    /\ np_result.unmatched = <<sT>>
    /\ Len(np_result.log) = Len(np_log) + 1

\* C8: for a dataset without an entry in the map the filter returns the
\* unmatched list and the log as given.
C8_FilterNoOpWithoutEntry ==
    (np_pc = "done" /\ np_dataset \notin DOMAIN np_mapping) =>
        /\ np_result.unmatched = np_unmatched
        /\ np_result.log = np_log

\* a term another dataset's rule would drop
C8_Witness ==
    /\ np_pc = "done"
    /\ np_dataset = "grocery"
    /\ np_unmatched = <<sMF>>
    /\ np_matched = <<sF>>
    /\ np_result.unmatched = <<sMF>>

(***************************************************************************)
(* Properties of the metrics computer (specification SpecMetrics).         *)
(***************************************************************************)
\* C9: every record holds TP = len(matched), FP = len(unmatched),
\* FN = len(remaining_gold) and Total Identified = TP + FP; the records of
\* all calls on the same arguments are equal; no call changes an argument.
C9_CountsFromSizes ==
    /\ [](\A k \in DOMAIN cm_records :
             /\ cm_records[k].TP = Len(cm_matched)
             /\ cm_records[k].FP = Len(cm_unmatched)
             /\ cm_records[k].FN = Cardinality(cm_remaining_gold)
             /\ cm_records[k].TotalIdentified
                    = cm_records[k].TP + cm_records[k].FP
             /\ cm_records[k].Round = cm_round_idx + 1
             /\ cm_records[k] = cm_records[1])
    /\ [][/\ cm_matched' = cm_matched
          /\ cm_unmatched' = cm_unmatched
          /\ cm_remaining_gold' = cm_remaining_gold
          /\ cm_round_idx' = cm_round_idx]_vars

\* the example of the specification, with a silver match among the five,
\* computed twice
C9_Witness ==
    /\ Len(cm_records) = 2
    /\ cm_records[2].TP = 5
    /\ cm_records[2].FP = 2
    /\ cm_records[2].FN = 1
    /\ \E k \in DOMAIN cm_matched : HasSilverTag(cm_matched[k])

\* the scores of a record, in thousandths
Scores(rec) == {rec.Precision, rec.Recall, rec.F05, rec.F1, rec.F2}

\* the conditions of C10 that the amendment keeps: the zero cases and the
\* range of the five scores
ZeroCasesAndRange(rec) ==
    /\ rec.TP + rec.FP = 0 => rec.Precision = 0
    /\ rec.TP + rec.FN = 0 => rec.Recall = 0
    /\ rec.TP = 0 => (rec.F05 = 0 /\ rec.F1 = 0 /\ rec.F2 = 0)
    /\ \A x \in Scores(rec) : 0 <= x /\ x <= 1000

\* C10 as stated: the zero cases, the range, and Precision = TP/(TP+FP)
\* and Recall = TP/(TP+FN) whenever the divisor is not 0.
C10_ExactQuotients ==
    \A k \in DOMAIN cm_records :
        LET rec == cm_records[k]
        IN /\ ZeroCasesAndRange(rec)
           /\ rec.TP + rec.FP > 0
                 => rec.Precision * (rec.TP + rec.FP) = 1000 * rec.TP
           /\ rec.TP + rec.FN > 0
                 => rec.Recall * (rec.TP + rec.FN) = 1000 * rec.TP

\* the distance of x thousandths from n/d is at most half a thousandth
NearestThousandth(x, n, d) ==
    /\ 2 * (x * d - 1000 * n) <= d
    /\ 2 * (1000 * n - x * d) <= d

\* C10, amended: the zero cases, the range, and Precision and Recall are
\* TP/(TP+FP) and TP/(TP+FN) rounded to three decimals.
C10_RoundedQuotients ==
    \A k \in DOMAIN cm_records :
        LET rec == cm_records[k]
        IN /\ ZeroCasesAndRange(rec)
           /\ rec.TP + rec.FP > 0
                 => NearestThousandth(rec.Precision, rec.TP, rec.TP + rec.FP)
           /\ rec.TP + rec.FN > 0
                 => NearestThousandth(rec.Recall, rec.TP, rec.TP + rec.FN)

\* two of three identified terms are right, two of three gold items found
C10_Witness ==
    /\ Len(cm_records) >= 1
    /\ cm_records[1].TP = 2
    /\ cm_records[1].FP = 1
    /\ cm_records[1].FN = 1
    /\ cm_records[1].Precision = 667
    /\ cm_records[1].Recall = 667

(***************************************************************************)
(* Properties of the normalizers (specification SpecNormalize).            *)
(***************************************************************************)
\* C14 as stated: whenever normalize_word was applied to a value and then
\* to its own answer, and neither call raised, the second answer equals
\* the first.
C14_NormalizeIdempotent ==
    (/\ Len(nw_answers) = 2
     /\ nw_answers[1].type = "str"
     /\ nw_answers[2].type = "str") => nw_answers[2] = nw_answers[1]

\* a value that is no str, or a str that is empty or holds only whitespace
IsBlank(word) == ~IsInstanceStr(word) \/ Strip(word.val) = <<>>

\* C15 as stated: a call of normalize_word, of either module, on a value
\* that is no str, on the empty string or on a whitespace-only string
\* answers the empty string; it never raises.
C15_NormalizeTotal ==
    (Len(nw_answers) >= 1 /\ IsBlank(nw_word)) => nw_answers[1] = PyStr(<<>>)

(***************************************************************************)
(* Properties of the entry points (specification SpecEntry).               *)
(***************************************************************************)
\* the key under which the entry point looks the dataset up
EntryKey == Lower(ep_dataset)

\* C16 as stated: a call for a dataset that has a gold standard never ends
\* with a KeyError, whichever sub-table lacks an entry for the dataset;
\* without a silver entry the rounds run with an empty silver set and no
\* term is matched against silver, without a synonym entry they run with
\* an empty synonym map, and without non-punishment rules the filter
\* returns the unmatched terms of a round as they are.
C16_MissingSubTableIsEmpty ==
    EntryKey \in GoldKeys =>
        /\ ep_error # "KeyError"
        /\ (ep_pc \in {"ready", "done"} /\ EntryKey \notin DOMAIN ep_silver_table)
              => /\ heap[silver_standard] = {}
                 /\ \A k \in DOMAIN claimed : claimed[k].tier # "silver"
        /\ (ep_pc \in {"ready", "done"} /\ EntryKey \notin DOMAIN ep_synonym_table)
              => synonym_map = <<>>
        /\ (/\ pc = "returned"
            /\ caller = "run_experiment"
            /\ ep_dataset \notin DOMAIN NonPunishClass)
              => remove_non_punished_from_unmatched(
                     mand_un, mand_matched, NonPunishClass, ep_dataset, log)
                   = [unmatched |-> mand_un, log |-> log]

\* C17: a call for a dataset without a gold standard never gets to the
\* round loop: no round is matched, no standards are bound, no file is
\* written, and the call can only end with an exception, the KeyError of
\* the gold lookup or, when the report is missing too, the error of
\* loading it.
C17_UnknownDatasetFails ==
    EntryKey \notin GoldKeys =>
        /\ ep_pc \in {"start", "loaded", "raised"}
        /\ ep_pc = "raised" => ep_error \in {"KeyError", "FileNotFoundError"}
        /\ ep_pc = "raised" /\ ep_report => ep_error = "KeyError"
        /\ round = 0
        /\ pc = "off"
        /\ claimed = <<>>
        /\ heap[gold_standard] = {}
        /\ ep_files = {}

\* evaluation_experiment loaded the report and then failed on the gold
\* lookup
C17_Witness ==
    /\ EntryKey \notin GoldKeys
    /\ ep_caller = "evaluation_experiment"
    /\ ep_pc = "raised"
    /\ ep_error = "KeyError"
    /\ ep_dirs # {}

(***************************************************************************)
(* Properties of generate_candidates (specifications SpecCandidates and    *)
(* SpecCandidatesFair).                                                    *)
(***************************************************************************)
\* the argument of the current call
CurrentElement == gc_elements[gc_next]

\* the dicts with the entries of gc_mapping, in any order
Reorderings == {m \in CandidateMappings : Range(m) = Range(gc_mapping)}

RECURSIVE Derivations(_, _, _)
\* the strings obtained from c by going once through the entries from k on,
\* in their order, and at an entry whose synonym occurs in the current
\* string either replacing it (and stripping) or not
Derivations(c, mapping, k) ==
    IF k > Len(mapping) THEN {c}
    ELSE Derivations(c, mapping, k + 1) \cup
         (IF IsSubstring(mapping[k][1], c)
          THEN Derivations(Strip(Replace(c, mapping[k][1], mapping[k][2])),
                           mapping, k + 1)
          ELSE {})

\* C23 as stated: the set generate_candidates returns for a string holds
\* the string and, with every candidate c and every entry whose synonym
\* occurs in c, the replacement of c, and is the same for every order of
\* the entries; for a non-string it is empty.
C23_ClosedUnderReplacement ==
    gc_pc = "returned" =>
        IF ~IsInstanceStr(CurrentElement) THEN gc_candidates = {}
        ELSE /\ CurrentElement.val \in gc_candidates
             /\ \A c \in gc_candidates, j \in DOMAIN gc_mapping :
                   IsSubstring(gc_mapping[j][1], c) =>
                       Strip(Replace(c, gc_mapping[j][1], gc_mapping[j][2]))
                           \in gc_candidates
             /\ \A m \in Reorderings :
                   generate_candidates(CurrentElement.val, m) = gc_candidates

\* C23, amended: the set generate_candidates returns for a string holds the
\* string and is exactly the set of strings obtained from it in one pass
\* over the entries in the order of the map, each entry whose synonym occurs
\* in the string so far being applied or not; for a non-string it is empty.
C23_OnePassInMapOrder ==
    gc_pc = "returned" =>
        IF ~IsInstanceStr(CurrentElement) THEN gc_candidates = {}
        ELSE /\ CurrentElement.val \in gc_candidates
             /\ gc_candidates = Derivations(CurrentElement.val, gc_mapping, 1)

\* a call on 'c' returned 'b', reached through c -> a and then a -> b, while
\* the same entries in another order do not give 'b'
C23_Witness ==
    /\ gc_pc = "returned"
    /\ CurrentElement = PyStr(sC)
    /\ sB \in gc_candidates
    /\ \E m \in Reorderings : sB \notin generate_candidates(sC, m)

\* C24: every call of generate_candidates returns, and the pass that makes
\* the calls gets to its end, whatever the map: also with a standard that
\* holds its own synonym or the synonym of another entry.
C24_CandidatesTerminate == <>(gc_pc = "done")

\* all calls returned, one of them on a string holding 'a' under a map with
\* the entry a -> 'c a', whose standard holds 'a' and the synonym 'c' of
\* another entry of the map; the replacement is among the candidates
C24_Witness ==
    /\ gc_pc = "done"
    /\ <<sA, sCspA>> \in Range(gc_mapping)
    /\ <<sC, sA>> \in Range(gc_mapping)
    /\ \E n \in DOMAIN gc_results :
          /\ gc_elements[n] = PyStr(sA)
          /\ sCspA \in gc_results[n]

(***************************************************************************)
(* Properties of two calls of a matcher (specification SpecTwoRuns).       *)
(***************************************************************************)
\* C26: when perform_matching has returned for the mandatory terms of an
\* input on which it had returned before, with the same standards and
\* synonym map, mand_matched, mand_un and the mandatory view are those of
\* the call on the whole input.
C26_MandatoryViewIgnoresOptional ==
    (/\ pc = "returned"
     /\ round = 2
     /\ tr_mode = "mandatory"
     /\ caller = "run_experiment") =>
        /\ mand_matched = tr_first.ret.mand_matched
        /\ mand_un = tr_first.ret.mand_un
        /\ heap[remaining_gold_man] = tr_first.ret.remaining_gold_man

\* C27: when a matcher has returned for an input on which it had returned
\* before, with the same standards and synonym map, the four buckets and
\* the two gold views are those of the first call, whatever the orders in
\* which the two calls traversed the candidate sets.
C27_MatchersDeterministic ==
    (pc = "returned" /\ round = 2 /\ tr_mode = "same") =>
        ReturnValue = tr_first.ret

(***************************************************************************)
(* Properties of deduplicate_associations (specification SpecDedup).       *)
(***************************************************************************)
\* the association a pair stands for: its two names without optional markers,
\* normalized, in no order
AssocOf(a) ==
    {text_utils_normalize_word("unchecked", PyStr(Strip(SubOptTags(a[1])))).val,
     text_utils_normalize_word("unchecked", PyStr(Strip(SubOptTags(a[2])))).val}

\* the positions of the input that are the first of their association
FirstOccurrences ==
    {k \in DOMAIN da_assocs :
        \A j \in 1..(k - 1) : AssocOf(da_assocs[j]) # AssocOf(da_assocs[k])}

\* the version of the association of position k that is to be kept: its
\* first mandatory version, or its first version if all are optional
KeptVersion(k) ==
    LET same == {j \in DOMAIN da_assocs :
                    AssocOf(da_assocs[j]) = AssocOf(da_assocs[k])}
        mandatory == {j \in same : ~IsOptionalAssoc(da_assocs[j])}
        from == IF mandatory # {} THEN mandatory ELSE same
    IN da_assocs[CHOOSE j \in from : \A i \in from : j <= i]

\* C28: the list deduplicate_associations returns has one entry for each
\* association of the input, [A, B], [B, A] and the versions with an
\* optional marker being one association, in the order of the first
\* occurrences, and the entry is the first mandatory version of the
\* association if there is one and its first optional version otherwise.
C28_OneEntryPerAssociation ==
    da_pc = "returned" =>
        /\ Len(da_out) = Cardinality(FirstOccurrences)
        /\ \A n \in DOMAIN da_out :
              \E k \in FirstOccurrences :
                  /\ Cardinality({j \in FirstOccurrences : j <= k}) = n
                  /\ da_out[n] = KeptVersion(k)

(***************************************************************************)
(* Properties of process_steps (specification SpecSteps).                  *)
(***************************************************************************)
\* the calls that succeeded
Succeeded == {j \in DOMAIN ps_calls : ps_calls[j].ok}

\* C29: at every point of process_steps the calls made are those of steps
\* 1, 2, ... in order and no call follows a call that failed; when it has
\* returned, responses holds the responses of the calls that succeeded, in
\* step order, and the conversation is the system prompt followed by user
\* and assistant messages in turn, the assistant message of every step that
\* succeeded and none of the step that failed or of a later one.
C29_StopsAtFirstFailure ==
    /\ \A j \in DOMAIN ps_calls :
          /\ ps_calls[j].step = j
          /\ ~ps_calls[j].ok => j = Len(ps_calls)
    /\ ps_pc = "returned" =>
          /\ Len(ps_responses) = Cardinality(Succeeded)
          /\ \A j \in DOMAIN ps_responses :
                /\ ps_responses[j].step = j
                /\ j \in Succeeded
                /\ ps_conversation[2 * j + 1] = ps_responses[j].message
          /\ Len(ps_conversation) =
                IF Succeeded = DOMAIN ps_calls
                THEN 2 * Len(ps_calls) + 1
                ELSE 2 * Len(ps_calls)
          /\ ps_conversation[1].role = "system"
          /\ \A i \in 2..Len(ps_conversation) :
                ps_conversation[i].role =
                    IF i % 2 = 0 THEN "user" ELSE "assistant"
          /\ Succeeded = DOMAIN ps_calls => Len(ps_calls) = Len(ps_instructions)

\* a call of three steps returned after the call of step 2 failed: one
\* response, and a conversation that ends with the prompt of step 2
C29_Witness ==
    /\ ps_pc = "returned"
    /\ Len(ps_instructions) = 3
    /\ Len(ps_calls) = 2
    /\ ps_calls[1].ok
    /\ ~ps_calls[2].ok
    /\ Len(ps_responses) = 1
    /\ Len(ps_conversation) = 4
    /\ ps_conversation[4].role = "user"

(***************************************************************************)
(* Properties of the generation runs (specification SpecRounds).           *)
(***************************************************************************)
\* C30: a run writes only files that do not exist yet, R<n> .. R<n+rounds-1>
\* with n = get_next_round_number(output_dir) taken at its start, so that no
\* run writes over a round file of an earlier run, also when round files
\* were deleted or another .txt file is in the directory.
C30_NoRunOverwrites ==
    /\ gr_pc = "writing" /\ gr_r < gr_rounds
          => RoundFile(gr_round_num + gr_r) \notin gr_files
    /\ gr_overwritten = {}

=============================================================================
